---- MODULE Spec2Model ----
(***************************************************************************)
(* PromptP: the Express routes over the in-memory store (MemStorage), the  *)
(* template manager, the prompt quality analyzer and the prompt enhancer.  *)
(*                                                                         *)
(* Time is kept at the granularity the code compares it at: the calendar   *)
(* day (isSameDay).  A request handler is a sequence of steps separated by *)
(* its awaits; a MemStorage method runs synchronously up to its own first  *)
(* await, so its read happens in the step that calls it and its write in   *)
(* the next step.                                                          *)
(***************************************************************************)
EXTENDS Integers, Sequences, FiniteSets, TLC

\* ---------------------------------------------------------------- bounds
MaxDay == 1          \* calendar days 0..MaxDay
MaxPromptId == 3     \* prompts created in a run of the whole API
MaxQuotaPrompts == 12 \* prompts created in a run of the quota routes
MaxProUsed == 1      \* saved enhancements of a pro-plan user in a run
MaxUserId == 2       \* userIdCounter never passes MaxUserId + 1

\* ------------------------------------------------------ program constants
FREE_TIER_DAILY_LIMIT == 10

ClerkIds == {"c1", "c2"}
NoHeader == "none"
Headers == ClerkIds \cup {"ghost", NoHeader}
Days == 0..MaxDay

VARIABLES
  users,            \* MemStorage.users: id -> User
  prompts,          \* MemStorage.prompts: id -> Prompt
  userIdCounter,    \* MemStorage.userIdCounter
  promptIdCounter,  \* MemStorage.promptIdCounter
  today,            \* the calendar day new Date() falls on
  req,              \* request slot -> handler in flight (or Idle)
  resp,             \* the response sent last
  okCount,          \* history: <<user id, day>> -> usage increments made on that day
  deleted,          \* history: prompt ids removed by a successful DELETE
  tContent,         \* PromptTemplate.content, a string as its characters
  tVariables,       \* PromptTemplate.variables, the names in order
  tVersion,         \* PromptTemplate.version
  tResult,          \* what applyTemplate returned
  tPhase,           \* "draft", "created" or "applied"
  qText,            \* the text under analysis, as its words
  qLastIndex,       \* lastIndex of the three completeness regexes
  qResult,          \* what analyzePromptQuality returned last
  qPrev,            \* the score before the vague term was inserted
  qCalls,           \* calls of analyzePromptQuality so far
  qPhase,           \* "ready", "analyzed", "inserted" or "compared"
  eTemplates,       \* the module's enhancementTemplates
  eRoleEnhancements,\* the module's roleSpecificEnhancements
  eFirst,           \* the first call of enhancePrompt: input and result
  eLast,            \* the latest call of enhancePrompt
  eMixed,           \* a call with another input followed the first
  eCalls,           \* calls of enhancePrompt so far
  storedTemplates,  \* the routes' in-memory list templates, in push order
  tResp,            \* the response a template route sent last
  usageData,        \* the routes' in-memory list usageData
  tracked,          \* history: the data points POST /api/analytics/track acknowledged
  aResp,            \* the response an analytics route sent last
  analyticsCache,   \* the module's Map analyticsCache: key -> entry
  cNow,             \* Date.now(), in milliseconds
  cCall,            \* the latest call of getCachedAnalytics, with what it found
  vContent,         \* content of the template handed to validateTemplate
  vVariables,       \* names of its variables, in order
  vResult,          \* what validateTemplate returned
  vPhase,           \* "idle", "ready" or "validated"
  promptStructure,  \* the PromptStructure the block operations hand on
  bNextId,          \* ids of blocks drawn so far, plus one
  bOps,             \* block operations applied so far
  bLast,            \* the latest block operation, with the structure it was given
  trData,           \* the data generateUsageTrends is given
  trNow,            \* the day of the call
  trRange,          \* its range
  trGroupBy,        \* its groupBy
  trResult,         \* what it returned
  trPhase           \* "idle", "ready" or "done"

storeVars == <<users, prompts, userIdCounter, promptIdCounter>>
serverVars == <<users, prompts, userIdCounter, promptIdCounter, today, req, resp,
                okCount, deleted>>
templateVars == <<tContent, tVariables, tVersion, tResult, tPhase>>
qualityVars == <<qText, qLastIndex, qResult, qPrev, qCalls, qPhase>>
enhanceVars == <<eTemplates, eRoleEnhancements, eFirst, eLast, eMixed, eCalls>>
libraryVars == <<storedTemplates, tResp>>
analyticsVars == <<usageData, tracked, aResp>>
cacheVars == <<analyticsCache, cNow, cCall>>
validateVars == <<vContent, vVariables, vResult, vPhase>>
blockVars == <<promptStructure, bNextId, bOps, bLast>>
trendVars == <<trData, trNow, trRange, trGroupBy, trResult, trPhase>>
addedVars == <<libraryVars, analyticsVars, cacheVars, validateVars, blockVars, trendVars>>
pureVars == <<templateVars, qualityVars, enhanceVars, addedVars>>
vars == <<serverVars, pureVars>>

\* ------------------------------------------------------------ MemStorage
NoUser == [id |-> 0, clerkId |-> "", plan |-> "", promptsUsedToday |-> 0,
           lastPromptDate |-> 0]
NoPrompt == [id |-> 0, userId |-> 0, createdAt |-> 0, text |-> "", role |-> ""]

Min(S) == CHOOSE x \in S : \A y \in S : x <= y

\* MemStorage.getUser
getUser(us, id) == IF id \in DOMAIN us THEN us[id] ELSE NoUser

\* MemStorage.getUserByClerkId: Array.find over the map's insertion order
getUserByClerkId(us, c) ==
  LET hits == {i \in DOMAIN us : us[i].clerkId = c}
  IN IF hits = {} THEN NoUser ELSE us[Min(hits)]

\* MemStorage.createUser: the record stored under the next id
createUser(id, c, plan, now) ==
  [id |-> id, clerkId |-> c, plan |-> plan, promptsUsedToday |-> 0,
   lastPromptDate |-> now]

\* MemStorage.resetUserPromptUsage, the write after its await: the user read
\* before the await, with the counter zeroed
resetUserPromptUsage(us, u, now) ==
  [i \in DOMAIN us \cup {u.id} |->
     IF i = u.id THEN [u EXCEPT !.promptsUsedToday = 0, !.lastPromptDate = now]
     ELSE us[i]]

\* MemStorage.incrementUserPromptUsage, the write after its await
incrementUserPromptUsage(us, u, now) ==
  [i \in DOMAIN us \cup {u.id} |->
     IF i = u.id THEN [u EXCEPT !.promptsUsedToday = u.promptsUsedToday + 1,
                                !.lastPromptDate = now]
     ELSE us[i]]

\* MemStorage.getPromptById
getPromptById(ps, id) == IF id \in DOMAIN ps THEN ps[id] ELSE NoPrompt

\* createPrompt that also writes its role into the prompts stored before
createPrompt_rewritesRole(ps, id, uid, text, role, now) ==
  [i \in DOMAIN ps \cup {id} |->
     IF i = id THEN [id |-> id, userId |-> uid, createdAt |-> now,
                     text |-> text, role |-> role]
     ELSE [ps[i] EXCEPT !.role = role]]

\* createPrompt that stores under the lowest id not in use
createPrompt_reusesFreedId(ps, id, uid, text, role, now) ==
  LET free == CHOOSE i \in 1..id : i \notin DOMAIN ps /\ \A j \in 1..(i - 1) : j \in DOMAIN ps
  IN [i \in DOMAIN ps \cup {free} |->
        IF i = free THEN [id |-> free, userId |-> uid, createdAt |-> now,
                          text |-> text, role |-> role]
        ELSE ps[i]]

\* MemStorage.createPrompt: the store after prompts.set(id, prompt)
createPrompt(ps, id, uid, text, role, now) ==
  [i \in DOMAIN ps \cup {id} |->
     IF i = id THEN [id |-> id, userId |-> uid, createdAt |-> now,
                     text |-> text, role |-> role]
     ELSE ps[i]]

\* deletePrompt that misses the key
deletePrompt_missesKey(ps, id) == ps

\* MemStorage.deletePrompt
deletePrompt(ps, id) == [i \in DOMAIN ps \ {id} |-> ps[i]]

\* isSameDay that compares year and month only (every modelled day is in
\* one month)
isSameDay_monthOnly(d1, d2) == TRUE

\* isSameDay(date1, date2)
isSameDay(d1, d2) == d1 = d2

\* MemStorage.getPromptsByUserId: the user's prompts, newest first (the sort
\* is stable over the map's insertion order), cut to the last limitDays days
\* when limitDays is given (0 stands for undefined)
RECURSIVE newestFirst(_, _)
newestFirst(ps, S) ==
  IF S = {} THEN <<>>
  ELSE LET m == CHOOSE i \in S : \A j \in S :
                   \/ ps[i].createdAt > ps[j].createdAt
                   \/ ps[i].createdAt = ps[j].createdAt /\ i <= j
       IN <<m>> \o newestFirst(ps, S \ {m})

\* the query without the cut
getPromptsByUserId_noLimit(ps, uid, limitDays, now) ==
  newestFirst(ps, {i \in DOMAIN ps : ps[i].userId = uid})

getPromptsByUserId(ps, uid, limitDays, now) ==
  LET mine == {i \in DOMAIN ps : ps[i].userId = uid}
      kept == IF limitDays # 0
              THEN {i \in mine : ps[i].createdAt >= now - limitDays}
              ELSE mine
  IN newestFirst(ps, kept)

\* MemStorage.getUserUsageStats: totalPrompts
getUserUsageStats(ps, uid) == Cardinality({i \in DOMAIN ps : ps[i].userId = uid})

HISTORY_LIMIT_DAYS == 7

\* ------------------------------------------------------ template manager
MaxContentLen == 6   \* characters of a template's content
MaxVersion == 2      \* versions made of one template

\* the characters contents are made of: the braces, a letter, a blank
TChars == {"{", "}", "a", " "}
TContents == UNION {[1..n -> TChars] : n \in 0..MaxContentLen}
\* the content a version request brings (<<>>: none)
TUpdates == {<<>>, <<"{", "{", "a", "}", "}">>, <<"{", "{", "a", " ", "}", "}">>}
\* the value supplied for every variable
TValue == <<"v">>

\* /\{\{([^}]+)\}\}/ tried at index i: the index after the match, or 0.
\* [^}]+ takes the whole run of characters other than "}", and "}}" follows.
RECURSIVE runEnd(_, _)
runEnd(c, j) == IF j <= Len(c) /\ c[j] # "}" THEN runEnd(c, j + 1) ELSE j

tokenEnd(c, i) ==
  IF i + 1 <= Len(c) /\ c[i] = "{" /\ c[i + 1] = "{"
  THEN LET e == runEnd(c, i + 2)
       IN IF e > i + 2 /\ e + 1 <= Len(c) /\ c[e] = "}" /\ c[e + 1] = "}"
          THEN e + 2 ELSE 0
  ELSE 0

\* String.prototype.trim
RECURSIVE trim(_)
trim(w) ==
  IF w = <<>> THEN w
  ELSE IF Head(w) = " " THEN trim(Tail(w))
  ELSE IF w[Len(w)] = " " THEN trim(SubSeq(w, 1, Len(w) - 1))
  ELSE w

\* extractVariablesFromContent: the trimmed names, first occurrences in order
RECURSIVE extractFrom(_, _, _)
extractFrom(c, i, names) ==
  IF i > Len(c) THEN names
  ELSE LET e == tokenEnd(c, i) IN
       IF e = 0 THEN extractFrom(c, i + 1, names)
       ELSE LET name == trim(SubSeq(c, i + 2, e - 3)) IN
            extractFrom(c, e, IF \E k \in 1..Len(names) : names[k] = name
                              THEN names ELSE Append(names, name))

extractVariablesFromContent(content) == extractFrom(content, 1, <<>>)

\* result.replace(new RegExp("\\{\\{" + name + "\\}\\}", "g"), value): over
\* TChars the pattern has no metacharacter left, it matches as the literal
\* {{name}}
RECURSIVE replaceAll(_, _, _)
replaceAll(c, pat, value) ==
  IF Len(c) < Len(pat) \/ c = <<>> THEN c
  ELSE IF SubSeq(c, 1, Len(pat)) = pat
       THEN value \o replaceAll(SubSeq(c, Len(pat) + 1, Len(c)), pat, value)
       ELSE <<Head(c)>> \o replaceAll(Tail(c), pat, value)

\* applyTemplate with a value supplied for every variable
RECURSIVE applyFrom(_, _, _, _)
applyFrom(result, variables, k, value) ==
  IF k > Len(variables) THEN result
  ELSE applyFrom(replaceAll(result, <<"{", "{">> \o variables[k] \o <<"}", "}">>, value),
                 variables, k + 1, value)

applyTemplate(content, variables, value) == applyFrom(content, variables, 1, value)

TemplateIdle ==
  /\ tContent = <<>> /\ tVariables = <<>> /\ tVersion = 0
  /\ tResult = <<>> /\ tPhase = "idle"

TemplateInit ==
  /\ tContent \in TContents
  /\ tVariables = <<>> /\ tVersion = 0 /\ tResult = <<>> /\ tPhase = "draft"

\* createTemplate
CreateTemplate ==
  /\ tPhase = "draft"
  /\ tVariables' = extractVariablesFromContent(tContent)
  /\ tVersion' = 1
  /\ tPhase' = "created"
  /\ UNCHANGED <<tContent, tResult>>

\* createTemplateVersion
CreateTemplateVersion(content) ==
  /\ tPhase = "created" /\ tVersion < MaxVersion
  /\ LET contentChanged == content # <<>> /\ content # tContent IN
     /\ tVariables' = IF contentChanged THEN extractVariablesFromContent(content)
                      ELSE tVariables
     /\ tContent' = IF content # <<>> THEN content ELSE tContent
  /\ tVersion' = tVersion + 1
  /\ UNCHANGED <<tResult, tPhase>>

ApplyTemplate ==
  /\ tPhase = "created"
  /\ tResult' = applyTemplate(tContent, tVariables, TValue)
  /\ tPhase' = "applied"
  /\ UNCHANGED <<tContent, tVariables, tVersion>>

\* -------------------------------------------------- prompt quality analyzer
MaxWords == 3        \* words of an analysed text (the sample apart)
MaxCalls == 3        \* calls of analyzePromptQuality in one run
MaxListItems == 8    \* numbered items of the sample text

\* A text is its words, joined by single blanks. One word for each kind of
\* pattern of qualityPatterns, a neutral one, and "is", which the lookahead
\* of clarity.ambiguous reads.
QWords == {"stuff", "it", "is", "large", "10%", "for", "1.", "-",
           "goal", "avoid", "user", "me"}
VagueTerms == {"stuff"}

wordLen(w) ==
  CASE w = "stuff" -> 5 [] w = "it" -> 2 [] w = "is" -> 2 [] w = "large" -> 5
    [] w = "10%" -> 3 [] w = "for" -> 3 [] w = "1." -> 2 [] w = "-" -> 1
    [] w = "goal" -> 4 [] w = "avoid" -> 5 [] w = "user" -> 4 [] w = "me" -> 2

\* the word starts with a \w character
startsWord(w) == w # "-"

\* offset of the first character of word i (of the end of the text for
\* i = Len(text) + 1, counting the blank before it)
RECURSIVE charStart(_, _)
charStart(text, i) ==
  IF i = 1 THEN 0 ELSE charStart(text, i - 1) + wordLen(text[i - 1]) + 1

count(text, w) == Cardinality({i \in 1..Len(text) : text[i] = w})

\* clarity.vague: /\b(something|somehow|thing|stuff|etc\.?)\b/gi
vagueCount(text) == Cardinality({i \in 1..Len(text) : text[i] \in VagueTerms})

\* clarity.ambiguous: /\b(it|...)\b(?! is| are| were| was)/gi
ambiguousCount(text) ==
  Cardinality({i \in 1..Len(text) :
                 text[i] = "it" /\ ~(i < Len(text) /\ text[i + 1] = "is")})

\* specificity.lacking: /(?<!\d)\b(large|...)\b/gi
lackingCount(text) == count(text, "large")

\* specificity.measures: /\d+\s*(%|percent|...)/gi
measuresCount(text) == count(text, "10%")

\* /\b(\d+)\.\s+\w+/gm and /\d+\.\s+\w+/gm: a match takes the number, the
\* blank and the word characters that follow, so the search goes on after
\* the next word's first characters
RECURSIVE numberedFrom(_, _)
numberedFrom(text, i) ==
  IF i >= Len(text) THEN 0
  ELSE IF text[i] = "1." /\ startsWord(text[i + 1])
       THEN 1 + numberedFrom(text, i + 2)
       ELSE numberedFrom(text, i + 1)

\* structure.sections
sectionsCount(text) == numberedFrom(text, 1)

\* structure.formatting: /-\s+\w+/gm, /\*\s+\w+/gm, /\d+\.\s+\w+/gm
formattingCount(text) ==
  Cardinality({i \in 1..Len(text) :
                 text[i] = "-" /\ i < Len(text) /\ startsWord(text[i + 1])})
  + numberedFrom(text, 1)

\* the characters after word i and its blank, up to the next "." or the end
RECURSIVE runAfter(_, _)
runAfter(text, j) ==
  IF j > Len(text) THEN 0
  ELSE IF text[j] = "1." THEN 1
  ELSE IF j = Len(text) THEN wordLen(text[j])
  ELSE wordLen(text[j]) + 1 + runAfter(text, j + 1)

\* context.defined: /\b(for|to use in)\s[^.]{5,50}(?=\.|$)/i
hasContext(text) ==
  \E i \in 1..Len(text) :
    /\ text[i] = "for" /\ i < Len(text)
    /\ runAfter(text, i + 1) >= 5 /\ runAfter(text, i + 1) <= 50

\* RegExp.prototype.test of a global regex for the word w: the search starts
\* at lastIndex; a match leaves lastIndex at its end, a failure at 0
test(text, w, lastIndex) ==
  LET hits == {i \in 1..Len(text) : text[i] = w /\ charStart(text, i) >= lastIndex}
  IN IF hits = {} THEN [found |-> FALSE, lastIndex |-> 0]
     ELSE LET i == CHOOSE h \in hits : \A k \in hits : h <= k
          IN [found |-> TRUE, lastIndex |-> charStart(text, i) + wordLen(w)]

\* the three tests one analysis makes of one completeness regex: in
\* identifyIssues, in identifyStrengths, in calculateOverallScore
tests(text, w, lastIndex) ==
  LET r1 == test(text, w, lastIndex)
      r2 == test(text, w, r1.lastIndex)
      r3 == test(text, w, r2.lastIndex)
  IN [issues |-> r1.found, strengths |-> r2.found, score |-> r3.found,
      lastIndex |-> r3.lastIndex]

Max2(a, b) == IF a >= b THEN a ELSE b
Min2(a, b) == IF a <= b THEN a ELSE b

calculateAspectScore_noCap(matches, positive) ==
  IF positive THEN matches * 20 ELSE Max2(0, 100 - matches * 20)
calculateAspectScore(matches, positive) ==
  IF positive THEN Min2(100, matches * 20) ELSE Max2(0, 100 - matches * 20)

\* calculateOverallScore, in thousandths; Math.round rounds a half up
calculateOverallScore(text, hasGoals, hasConstraints, hasAudience) ==
  LET clarity == calculateAspectScore(vagueCount(text) + ambiguousCount(text), FALSE)
      specificity10 == 4 * calculateAspectScore(lackingCount(text), FALSE)
                       + 6 * calculateAspectScore(measuresCount(text), TRUE)
      context == IF hasContext(text) THEN 80 ELSE 40
      structure10 == 5 * calculateAspectScore(sectionsCount(text), TRUE)
                     + 5 * calculateAspectScore(formattingCount(text), TRUE)
      completeness == (IF hasGoals THEN 40 ELSE 0)
                      + (IF hasConstraints THEN 30 ELSE 0)
                      + (IF hasAudience THEN 30 ELSE 0)
      score1000 == 250 * clarity + 25 * specificity10 + 200 * context
                   + 15 * structure10 + 150 * completeness
  IN (score1000 + 500) \div 1000

generateOverallFeedback(score) ==
  IF score >= 90 THEN "excellent"
  ELSE IF score >= 75 THEN "good"
  ELSE IF score >= 60 THEN "decent"
  ELSE IF score >= 40 THEN "needs improvement"
  ELSE "significant revision"

analyzePromptQuality(text, lastIndex) ==
  LET g == tests(text, "goal", lastIndex.goals)
      c == tests(text, "avoid", lastIndex.constraints)
      a == tests(text, "user", lastIndex.audience)
      score == calculateOverallScore(text, g.score, c.score, a.score)
  IN [score |-> score,
      overallFeedback |-> generateOverallFeedback(score),
      issues |-> [goals |-> g.issues, constraints |-> c.issues, audience |-> a.issues],
      strengths |-> [goals |-> g.strengths, constraints |-> c.strengths,
                     audience |-> a.strengths],
      lastIndex |-> [goals |-> g.lastIndex, constraints |-> c.lastIndex,
                     audience |-> a.lastIndex]]

\* numbered lists of measures, then a purpose, a goal, a constraint and an
\* audience
RECURSIVE listOf(_)
listOf(n) == IF n = 0 THEN <<>> ELSE <<"1.", "10%">> \o listOf(n - 1)
QSamples == {listOf(n) \o <<"for", "goal", "avoid", "user">> : n \in 1..MaxListItems}

QTexts == UNION {[1..n -> QWords] : n \in 0..MaxWords} \cup QSamples

NoResult == [score |-> 0, overallFeedback |-> "none",
             issues |-> [goals |-> FALSE, constraints |-> FALSE, audience |-> FALSE],
             strengths |-> [goals |-> FALSE, constraints |-> FALSE, audience |-> FALSE],
             lastIndex |-> [goals |-> 0, constraints |-> 0, audience |-> 0]]

QualityIdle ==
  /\ qText = <<>>
  /\ qLastIndex = [goals |-> 0, constraints |-> 0, audience |-> 0]
  /\ qResult = NoResult /\ qPrev = 0 /\ qCalls = 0 /\ qPhase = "idle"

\* the module is loaded, a text arrives
QualityInit ==
  /\ qText \in QTexts
  /\ qLastIndex = [goals |-> 0, constraints |-> 0, audience |-> 0]
  /\ qResult = NoResult /\ qPrev = 0 /\ qCalls = 0 /\ qPhase = "ready"

\* analyzePromptQuality is called (POST /api/prompts/analyze-quality), once
\* more for the same text
Analyze ==
  /\ qPhase \in {"ready", "analyzed"} /\ qCalls < MaxCalls
  /\ LET r == analyzePromptQuality(qText, qLastIndex) IN
     /\ qResult' = r
     /\ qLastIndex' = r.lastIndex
  /\ qCalls' = qCalls + 1
  /\ qPhase' = "analyzed"
  /\ UNCHANGED <<qText, qPrev>>

\* one more occurrence of a vague term is put before word pos (after the
\* last word for pos = Len + 1), the rest of the text stays as it is
InsertVague(pos, term) ==
  /\ qPhase = "analyzed"
  /\ pos \in 1..(Len(qText) + 1)
  /\ qText' = SubSeq(qText, 1, pos - 1) \o <<term>> \o SubSeq(qText, pos, Len(qText))
  /\ qPrev' = qResult.score
  /\ qPhase' = "inserted"
  /\ UNCHANGED <<qLastIndex, qResult, qCalls>>

\* the text with the inserted term is analysed
AnalyzeInserted ==
  /\ qPhase = "inserted"
  /\ LET r == analyzePromptQuality(qText, qLastIndex) IN
     /\ qResult' = r
     /\ qLastIndex' = r.lastIndex
  /\ qCalls' = qCalls + 1
  /\ qPhase' = "compared"
  /\ UNCHANGED <<qText, qPrev>>

\* ------------------------------------------------------------- ai engine
MaxPromptWords == 1  \* words of a prompt before its padding
MaxEnhanceCalls == 3 \* calls of enhancePrompt in one run

UserRoles == {"writer", "developer", "designer", "marketer"}

\* enhancementTemplates and roleSpecificEnhancements as the module holds them
enhancementTemplates ==
  [context |->
   <<"Provide context about the project/situation where this will be used",
        "Include background information on the topic",
        "Specify the intended audience for this content",
        "Clarify the purpose of this request">>,
   structure |->
   <<"Break this down into numbered steps",
        "Organize this into sections with headings",
        "Use bullet points to list out key requirements",
        "Include both examples and counter-examples">>,
   details |->
   <<"Include specific metrics or measurements",
        "Add technical specifications",
        "Describe visual elements in detail",
        "Mention required formats and dimensions">>]

roleSpecificEnhancements ==
  [r \in UserRoles |->
     CASE r = "writer" ->
   <<"Include character development guidelines",
        "Specify narrative style (first-person, third-person, etc.)",
        "Define the pacing and structure of the content",
        "Request specific literary devices or techniques">>
       [] r = "developer" ->
   <<"Specify programming language and environment",
        "Include performance requirements",
        "Define API specifications or interfaces",
        "Request code comments and documentation style">>
       [] r = "designer" ->
   <<"Specify color schemes and visual styling",
        "Include brand guidelines to follow",
        "Define target devices and screen sizes",
        "Request specific file formats and resolutions">>
       [] r = "marketer" ->
   <<"Define target audience demographics",
        "Specify call-to-action requirements",
        "Include brand voice guidelines",
        "Request SEO considerations and keywords">>]

\* A text is its pieces in order, each a word of the prompt or a fixed
\* string of the module, separated by white space.
PromptWords == {"app", "brand", "10px"}
Filler == "essay"

\* the number of white-space separated words of a piece
fragmentWords(f) ==
  CASE f \in {"-", "technology", "business/creative", "technology/business/creative",
            "app", "brand", "essay", "10px"} -> 1
    [] f \in {"that includes:", "Also include:", "Please include:",
            "Additional requirements:"} -> 2
    [] f \in {"Add technical specifications", "Include performance requirements",
            "Specify call-to-action requirements"} -> 3
    [] f \in {"Include character development guidelines",
            "Define target audience demographics",
            "Include brand voice guidelines"} -> 4
    [] f \in {"Provide a detailed and comprehensive",
            "2. Specific details and requirements",
            "3. Desired format and structure", "4. Style and tone guidelines",
            "Include both examples and counter-examples",
            "Include specific metrics or measurements",
            "Describe visual elements in detail",
            "Mention required formats and dimensions",
            "Specify programming language and environment",
            "Define API specifications or interfaces",
            "Include brand guidelines to follow",
            "Request SEO considerations and keywords"} -> 5
    [] f \in {"1. Clear context and background information",
            "5. Examples or references if applicable",
            "Please provide a prompt to enhance.",
            "Include background information on the topic",
            "Clarify the purpose of this request",
            "Break this down into numbered steps",
            "Organize this into sections with headings",
            "Specify narrative style (first-person, third-person, etc.)",
            "Request specific literary devices or techniques",
            "Request code comments and documentation style",
            "Specify color schemes and visual styling",
            "Define target devices and screen sizes",
            "Request specific file formats and resolutions"} -> 6
    [] f \in {"Specify the intended audience for this content"} -> 7
    [] f \in {"Use bullet points to list out key requirements",
            "Define the pacing and structure of the content"} -> 8
    [] f \in {"Provide context about the project/situation where this will be used"} -> 10
    [] f \in {"Ensure the output is comprehensive, well-structured, and aligned with professional standards for this type of content."} -> 16

\* /specific|exactly|precise|detailed/i finds a match in the piece
hasSpecificTerm(f) ==
  f \in {"Provide a detailed and comprehensive",
        "2. Specific details and requirements",
        "Include specific metrics or measurements",
        "Add technical specifications",
        "Request specific literary devices or techniques",
        "Define API specifications or interfaces",
        "Request specific file formats and resolutions"}

\* /\d+\s*(px|em|rem|cm|mm|%|seconds|minutes)/i finds a match in the piece
hasMeasurement(f) == f = "10px"

RECURSIVE sumWords(_)
sumWords(text) == IF text = <<>> THEN 0 ELSE fragmentWords(Head(text)) + sumWords(Tail(text))

\* countWords: text.split(/\s+/).filter(Boolean).length
countWords(text) == sumWords(text)

\* calculateSpecificity; a text without leading or trailing white space
\* splits into its words
calculateSpecificity(text) ==
  LET wordCount == IF text = <<>> THEN 1 ELSE sumWords(text)
      hasSpecificTerms == \E i \in 1..Len(text) : hasSpecificTerm(text[i])
      hasMeasurements == \E i \in 1..Len(text) : hasMeasurement(text[i])
  IN IF (wordCount > 15 /\ hasSpecificTerms) \/ hasMeasurements THEN "high"
     ELSE IF wordCount > 8 THEN "medium"
     ELSE "low"

\* topicKeywords: the words of a prompt that contain a keyword of the topic
TopicNames == <<"technology", "business", "creative", "education">>
topicKeywords(topic) ==
  CASE topic = "technology" -> {"app"}
    [] topic = "business" -> {"brand"}
    [] topic = "creative" -> {"brand"}
    [] topic = "education" -> {}

hasTopic(input, topic) == \E i \in 1..Len(input) : input[i] \in topicKeywords(topic)
detectTopics(input) == SelectSeq(TopicNames, LAMBDA topic : hasTopic(input, topic))

\* detectedTopics.join("/")
joinTopics(topics) ==
  CASE topics = <<"technology">> -> "technology"
    [] topics = <<"business", "creative">> -> "business/creative"
    [] topics = <<"technology", "business", "creative">> -> "technology/business/creative"

\* Array.prototype.slice(0, n): the items, and the receiver as the call
\* leaves it
slice_splices(arr, n) ==
  [items |-> SubSeq(arr, 1, n), receiver |-> SubSeq(arr, n + 1, Len(arr))]
slice(arr, n) ==
  [items |-> SubSeq(arr, 1, n), receiver |-> arr]

\* items.map(e => `- ${e}`)
RECURSIVE bullets(_)
bullets(items) ==
  IF items = <<>> THEN <<>> ELSE <<"-", Head(items)>> \o bullets(Tail(items))

Sections == <<"1. Clear context and background information",
              "2. Specific details and requirements",
              "3. Desired format and structure",
              "4. Style and tone guidelines",
              "5. Examples or references if applicable">>

\* enhancePrompt: the result, and the module's tables after the call
enhancePrompt(originalPrompt, role, shouldAddSections, templates, roleEnhancements) ==
  LET originalWords == countWords(originalPrompt)
      detectedTopics == detectTopics(originalPrompt)
      two == slice(roleEnhancements[role], 2)
      three == slice(roleEnhancements[role], 3)
      ctx == slice(templates.context, 1)
      str == slice(templates.structure, 1)
      det == slice(templates.details, 2)
      short == <<"Provide a detailed and comprehensive">>
               \o (IF detectedTopics # <<>> THEN <<joinTopics(detectedTopics)>> ELSE <<>>)
               \o originalPrompt \o <<"that includes:">>
               \o (IF shouldAddSections THEN Sections ELSE <<>>)
               \o (IF two.items # <<>> THEN <<"Also include:">> \o bullets(two.items)
                   ELSE <<>>)
      medium == originalPrompt \o <<"Please include:">>
                \o bullets(ctx.items \o str.items \o det.items \o two.items)
      long == originalPrompt \o <<"Additional requirements:">> \o bullets(three.items)
              \o <<"Ensure the output is comprehensive, well-structured, and aligned with professional standards for this type of content.">>
      enhancedText == IF originalWords < 5 THEN short
                      ELSE IF originalWords < 15 THEN medium
                      ELSE long
  IN IF originalPrompt = <<>>
     THEN [result |-> [original |-> <<>>,
                       enhanced |-> <<"Please provide a prompt to enhance.">>,
                       wordCount |-> [original |-> 0, enhanced |-> 7],
                       specificity |-> "low"],
           templates |-> templates, roleEnhancements |-> roleEnhancements]
     ELSE [result |-> [original |-> originalPrompt,
                       enhanced |-> enhancedText,
                       wordCount |-> [original |-> originalWords,
                                      enhanced |-> countWords(enhancedText)],
                       specificity |-> calculateSpecificity(enhancedText)],
           templates |->
             IF originalWords >= 5 /\ originalWords < 15
             THEN [context |-> ctx.receiver, structure |-> str.receiver,
                   details |-> det.receiver]
             ELSE templates,
           roleEnhancements |->
             [roleEnhancements EXCEPT
                ![role] = IF originalWords >= 15 THEN three.receiver ELSE two.receiver]]

\* the prompts: up to MaxPromptWords words, then none, 4 or 14 filler words
RECURSIVE pad(_)
pad(n) == IF n = 0 THEN <<>> ELSE <<Filler>> \o pad(n - 1)
Pads == {0, 4, 14}
EPrompts == {base \o pad(n) : base \in UNION {[1..k -> PromptWords] : k \in 0..MaxPromptWords},
                              n \in Pads}
NoCall == [input |-> <<>>, result |-> <<>>]

EnhanceIdle ==
  /\ eTemplates = enhancementTemplates
  /\ eRoleEnhancements = roleSpecificEnhancements
  /\ eFirst = NoCall /\ eLast = NoCall /\ eMixed = FALSE /\ eCalls = 0

\* one call of enhancePrompt; the first call of a run is kept to compare
EnhanceCall(originalPrompt, role, shouldAddSections) ==
  /\ eCalls < MaxEnhanceCalls
  /\ \E r \in {enhancePrompt(originalPrompt, role, shouldAddSections,
                             eTemplates, eRoleEnhancements)} :
       \E call \in {[input |-> <<originalPrompt, role, shouldAddSections>>,
                     result |-> r.result]} :
         /\ eLast' = call
         /\ eFirst' = IF eCalls = 0 THEN call ELSE eFirst
         /\ eMixed' = (eMixed \/ (eCalls > 0 /\ call.input # eFirst.input))
         /\ eTemplates' = r.templates
         /\ eRoleEnhancements' = r.roleEnhancements
  /\ eCalls' = eCalls + 1

\* ------------------------------------------------- requests and responses
Slots == {1, 2}
Texts == {"t"}
Roles == {"writer"}

Pre == <<users, prompts, userIdCounter, promptIdCounter>>
Idle == [route |-> "idle", pc |-> "", clerk |-> "", user |-> NoUser, su |-> NoUser,
         day |-> 0, rolled |-> FALSE, before |-> 0, pid |-> 0, prompt |-> NoPrompt,
         save |-> FALSE, adv |-> FALSE, text |-> "", role |-> "", pre |-> <<>>]
NoResp == [route |-> "none", status |-> 0, clerk |-> "", uid |-> 0, plan |-> "",
           saved |-> FALSE, day |-> 0, rolled |-> FALSE, before |-> 0, seen |-> 0,
           used |-> 0,
           unchanged |-> TRUE, pid |-> 0, ids |-> <<>>, total |-> 0,
           isEnhanced |-> FALSE]

\* in-flight handlers that may still call createPrompt
Creators == {s \in Slots : req[s].route \in {"enhance", "save", "generate"}}
\* the requests a run takes: at most cap prompts are ever created
Room(cap) == promptIdCounter + Cardinality(Creators) <= cap
\* and a pro-plan user, whose counter nothing resets, saves up to MaxProUsed
ProRoom(c) == LET u == getUserByClerkId(users, c)
              IN u.plan = "pro" => u.promptsUsedToday < MaxProUsed

\* a request enters the lowest free slot
CanStart(s) == req[s] = Idle /\ \A t \in Slots : t < s => req[t] # Idle

Begin(s, r) == req' = [req EXCEPT ![s] = r]
Reply(s, r) == req' = [req EXCEPT ![s] = Idle] /\ resp' = r
\* what a response carries, with the handler's bookkeeping: unchanged tells
\* whether the store is, after this step, as the handler found it
Answer(r, route, status) ==
  [NoResp EXCEPT !.route = route, !.status = status, !.clerk = r.clerk,
                 !.uid = r.user.id, !.plan = r.user.plan, !.day = r.day,
                 !.rolled = r.rolled, !.before = r.before, !.pid = r.pid,
                 !.seen = r.user.promptsUsedToday,
                 !.unchanged = (Pre' = r.pre)]
\* a response sent before the handler's first await
AnswerNow(route, status, c) ==
  [NoResp EXCEPT !.route = route, !.status = status, !.clerk = c,
                 !.day = today', !.unchanged = (Pre' = Pre)]
Bump(f, uid, d) == [f EXCEPT ![<<uid, d>>] = @ + 1]
NewRequest(route, c) ==
  [Idle EXCEPT !.route = route, !.pc = "user", !.clerk = c,
               !.user = getUserByClerkId(users, c), !.pre = Pre]

\* the limit that lets one more prompt through
dailyLimitReached_offByOne(u) == u.promptsUsedToday > FREE_TIER_DAILY_LIMIT
\* (user.promptsUsedToday || 0) >= FREE_TIER_DAILY_LIMIT
dailyLimitReached(u) == u.promptsUsedToday >= FREE_TIER_DAILY_LIMIT

\* ------------------------------------------------------------------ clock
\* midnight passes
Tick ==
  /\ today < MaxDay
  /\ today' = today + 1
  /\ UNCHANGED <<storeVars, req, resp, okCount, deleted, pureVars>>

\* ------------------------------------------------- POST /api/users/clerk
ClerkStart(s, c) ==
  /\ CanStart(s) /\ c \in ClerkIds
  /\ userIdCounter + Cardinality({t \in Slots : req[t].route = "clerk"}) <= MaxUserId
  /\ Begin(s, NewRequest("clerk", c))
  /\ UNCHANGED <<storeVars, today, resp, okCount, deleted, pureVars>>

ClerkCreate(s) ==
  LET r == req[s] IN
  /\ r.route = "clerk" /\ r.pc = "user"
  /\ UNCHANGED <<prompts, promptIdCounter, today, okCount, deleted, pureVars>>
  /\ IF r.user = NoUser
     THEN LET u == createUser(userIdCounter, r.clerk, "free", today) IN
          /\ users' = [i \in DOMAIN users \cup {u.id} |->
                         IF i = u.id THEN u ELSE users[i]]
          /\ userIdCounter' = userIdCounter + 1
          /\ Reply(s, [Answer(r, "clerk", 200) EXCEPT !.uid = u.id, !.plan = u.plan])
     ELSE /\ UNCHANGED <<users, userIdCounter>>
          /\ Reply(s, Answer(r, "clerk", 200))

\* --------------------------------- MemStorage writes behind their awaits
ResetUserPromptUsageWrite(s) ==
  LET r == req[s] IN
  /\ r.pc = "reset"
  /\ users' = resetUserPromptUsage(users, r.su, today)
  /\ Begin(s, [r EXCEPT !.pc = "resetDone"])
  /\ UNCHANGED <<prompts, userIdCounter, promptIdCounter, today, resp,
                 okCount, deleted, pureVars>>

IncrementUserPromptUsageWrite(s) ==
  LET r == req[s] IN
  /\ r.pc = "inc"
  /\ users' = incrementUserPromptUsage(users, r.su, today)
  /\ okCount' = Bump(okCount, r.su.id, today)
  /\ Begin(s, [r EXCEPT !.pc = "incDone"])
  /\ UNCHANGED <<prompts, userIdCounter, promptIdCounter, today, resp, deleted,
                 pureVars>>

\* ------------------------------------------------ POST /api/prompts/enhance
EnhanceStart(s, c, text, role) ==
  /\ CanStart(s) /\ c \in Headers
  /\ UNCHANGED <<storeVars, today, okCount, deleted, pureVars>>
  /\ IF c = NoHeader
     THEN /\ resp' = AnswerNow("enhance", 200, c)
          /\ UNCHANGED req
     ELSE /\ Begin(s, [NewRequest("enhance", c) EXCEPT !.text = text, !.role = role])
          /\ UNCHANGED resp

\* the check with the daily limit applied whatever the plan
EnhanceCheck_limitsEveryPlan(s) ==
  LET r == req[s]
      u == r.user
      q == [r EXCEPT !.day = today,
                     !.rolled = (u.plan = "free" /\ u.lastPromptDate # today),
                     !.before = IF u = NoUser THEN 0 ELSE okCount[<<u.id, today>>]]
  IN
  /\ r.route = "enhance" /\ r.pc = "user"
  /\ UNCHANGED <<storeVars, today, okCount, deleted, pureVars>>
  /\ IF u = NoUser
     THEN Reply(s, Answer(q, "enhance", 404))
     ELSE IF u.plan = "free" /\ ~isSameDay(today, u.lastPromptDate)
     THEN /\ Begin(s, [q EXCEPT !.pc = "reset",
                                !.su = getUser(users, u.id)])
          /\ UNCHANGED resp
     ELSE IF dailyLimitReached(u)
     THEN Reply(s, Answer(q, "enhance", 402))
     ELSE /\ Begin(s, [q EXCEPT !.pc = "inc", !.su = getUser(users, u.id)])
          /\ UNCHANGED resp

\* the daily-limit check of a free-plan user, then the call of
\* resetUserPromptUsage or incrementUserPromptUsage (each reads the user now)
EnhanceCheck(s) ==
  LET r == req[s]
      u == r.user
      q == [r EXCEPT !.day = today,
                     !.rolled = (u.plan = "free" /\ u.lastPromptDate # today),
                     !.before = IF u = NoUser THEN 0 ELSE okCount[<<u.id, today>>]]
  IN
  /\ r.route = "enhance" /\ r.pc = "user"
  /\ UNCHANGED <<storeVars, today, okCount, deleted, pureVars>>
  /\ IF u = NoUser
     THEN Reply(s, Answer(q, "enhance", 404))
     ELSE IF u.plan = "free" /\ ~isSameDay(today, u.lastPromptDate)
     THEN /\ Begin(s, [q EXCEPT !.pc = "reset",
                                !.su = getUser(users, u.id)])
          /\ UNCHANGED resp
     ELSE IF u.plan = "free" /\ dailyLimitReached(u)
     THEN Reply(s, Answer(q, "enhance", 402))
     ELSE /\ Begin(s, [q EXCEPT !.pc = "inc", !.su = getUser(users, u.id)])
          /\ UNCHANGED resp

EnhanceAfterReset(s) ==
  LET r == req[s] IN
  /\ r.route = "enhance" /\ r.pc = "resetDone"
  /\ Begin(s, [r EXCEPT !.pc = "inc", !.su = getUser(users, r.user.id)])
  /\ UNCHANGED <<storeVars, today, resp, okCount, deleted, pureVars>>

EnhanceCreate(s) ==
  LET r == req[s] IN
  /\ r.route = "enhance" /\ r.pc = "incDone"
  /\ prompts' = createPrompt(prompts, promptIdCounter, r.user.id, r.text, r.role, today)
  /\ promptIdCounter' = promptIdCounter + 1
  /\ UNCHANGED <<users, userIdCounter, today, okCount, deleted, pureVars>>
  /\ Reply(s, [Answer(r, "enhance", 200) EXCEPT
                 !.saved = TRUE, !.pid = promptIdCounter,
                 !.used = getUser(users, r.user.id).promptsUsedToday])

\* ----------------------------------------------- POST /api/prompts/generate
GenerateStart(s, c, save, adv, text, role) ==
  /\ CanStart(s) /\ c \in Headers
  /\ UNCHANGED <<storeVars, today, okCount, deleted, pureVars>>
  /\ IF ~(adv \/ save)
     THEN /\ resp' = AnswerNow("generate", 200, c)
          /\ UNCHANGED req
     ELSE IF c = NoHeader
     THEN /\ resp' = AnswerNow("generate", 401, c)
          /\ UNCHANGED req
     ELSE /\ Begin(s, [NewRequest(IF save THEN "generate" ELSE "generateOnly", c)
                         EXCEPT !.text = text, !.role = role, !.save = save,
                                !.adv = adv])
          /\ UNCHANGED resp

\* generatePrompt, then incrementUserPromptUsage is called when save is set
GenerateContinue(s, q) ==
  IF q.save
  THEN /\ Begin(s, [q EXCEPT !.pc = "inc", !.su = getUser(users, q.user.id)])
       /\ UNCHANGED resp
  ELSE Reply(s, [Answer(q, "generate", 200) EXCEPT
                   !.isEnhanced = (q.adv /\ q.user.plan = "pro")])

\* the check without the plan gate of the enhanced algorithm
GenerateCheck_noPlanGate(s) ==
  LET r == req[s]
      u == r.user
      q == [r EXCEPT !.day = today,
                     !.rolled = (u.plan = "free" /\ u.lastPromptDate # today),
                     !.before = IF u = NoUser THEN 0 ELSE okCount[<<u.id, today>>]]
  IN
  /\ r.route \in {"generate", "generateOnly"} /\ r.pc = "user"
  /\ UNCHANGED <<storeVars, today, okCount, deleted, pureVars>>
  /\ IF u = NoUser
     THEN Reply(s, Answer(q, "generate", 404))
     ELSE IF u.plan = "free" /\ ~isSameDay(today, u.lastPromptDate)
     THEN /\ Begin(s, [q EXCEPT !.pc = "reset",
                                !.su = getUser(users, u.id)])
          /\ UNCHANGED resp
     ELSE IF u.plan = "free" /\ dailyLimitReached(u)
     THEN Reply(s, Answer(q, "generate", 402))
     ELSE GenerateContinue(s, q)

GenerateCheck(s) ==
  LET r == req[s]
      u == r.user
      q == [r EXCEPT !.day = today,
                     !.rolled = (u.plan = "free" /\ u.lastPromptDate # today),
                     !.before = IF u = NoUser THEN 0 ELSE okCount[<<u.id, today>>]]
  IN
  /\ r.route \in {"generate", "generateOnly"} /\ r.pc = "user"
  /\ UNCHANGED <<storeVars, today, okCount, deleted, pureVars>>
  /\ IF u = NoUser
     THEN Reply(s, Answer(q, "generate", 404))
     ELSE IF r.adv /\ u.plan # "pro"
     THEN Reply(s, Answer(q, "generate", 403))
     ELSE IF u.plan = "free" /\ ~isSameDay(today, u.lastPromptDate)
     THEN /\ Begin(s, [q EXCEPT !.pc = "reset",
                                !.su = getUser(users, u.id)])
          /\ UNCHANGED resp
     ELSE IF u.plan = "free" /\ dailyLimitReached(u)
     THEN Reply(s, Answer(q, "generate", 402))
     ELSE GenerateContinue(s, q)

GenerateAfterReset(s) ==
  LET r == req[s] IN
  /\ r.route \in {"generate", "generateOnly"} /\ r.pc = "resetDone"
  /\ UNCHANGED <<storeVars, today, okCount, deleted, pureVars>>
  /\ GenerateContinue(s, r)

GenerateCreate(s) ==
  LET r == req[s] IN
  /\ r.route = "generate" /\ r.pc = "incDone"
  /\ prompts' = createPrompt(prompts, promptIdCounter, r.user.id, r.text, r.role, today)
  /\ promptIdCounter' = promptIdCounter + 1
  /\ UNCHANGED <<users, userIdCounter, today, okCount, deleted, pureVars>>
  /\ Reply(s, [Answer(r, "generate", 200) EXCEPT
                 !.saved = TRUE, !.pid = promptIdCounter,
                 !.isEnhanced = (r.adv /\ r.user.plan = "pro"),
                 !.used = getUser(users, r.user.id).promptsUsedToday])

\* --------------------------------------------------- POST /api/prompts/save
SaveStart(s, c, text, role) ==
  /\ CanStart(s) /\ c \in Headers
  /\ UNCHANGED <<storeVars, today, okCount, deleted, pureVars>>
  /\ IF c = NoHeader
     THEN /\ resp' = AnswerNow("save", 401, c)
          /\ UNCHANGED req
     ELSE /\ Begin(s, [NewRequest("save", c) EXCEPT !.text = text, !.role = role])
          /\ UNCHANGED resp

SaveCreate(s) ==
  LET r == req[s] IN
  /\ r.route = "save" /\ r.pc = "user"
  /\ UNCHANGED <<users, userIdCounter, today, okCount, deleted, pureVars>>
  /\ IF r.user = NoUser
     THEN /\ UNCHANGED <<prompts, promptIdCounter>>
          /\ Reply(s, Answer(r, "save", 404))
     ELSE /\ prompts' = createPrompt(prompts, promptIdCounter, r.user.id, r.text,
                                     r.role, today)
          /\ promptIdCounter' = promptIdCounter + 1
          /\ Reply(s, [Answer(r, "save", 200) EXCEPT !.pid = promptIdCounter])

\* ------------------------------------------------- GET /api/prompts/history
HistoryStart(s, c) ==
  /\ CanStart(s) /\ c \in Headers
  /\ UNCHANGED <<storeVars, today, okCount, deleted, pureVars>>
  /\ IF c = NoHeader
     THEN /\ resp' = AnswerNow("history", 401, c)
          /\ UNCHANGED req
     ELSE /\ Begin(s, NewRequest("history", c))
          /\ UNCHANGED resp

HistoryReply(s) ==
  LET r == req[s]
      limitDays == IF r.user.plan = "free" THEN HISTORY_LIMIT_DAYS ELSE 0
  IN
  /\ r.route = "history" /\ r.pc = "user"
  /\ UNCHANGED <<storeVars, today, okCount, deleted, pureVars>>
  /\ IF r.user = NoUser
     THEN Reply(s, Answer(r, "history", 404))
     ELSE Reply(s, [Answer(r, "history", 200) EXCEPT
                      !.ids = getPromptsByUserId(prompts, r.user.id, limitDays, today)])

\* --------------------------------------------------- GET /api/prompts/:id
GetPromptStart(s, c, id) ==
  /\ CanStart(s) /\ c \in Headers /\ id \in 1..promptIdCounter
  /\ UNCHANGED <<storeVars, today, okCount, deleted, pureVars>>
  /\ IF c = NoHeader
     THEN /\ resp' = [AnswerNow("getPrompt", 401, c) EXCEPT !.pid = id]
          /\ UNCHANGED req
     ELSE /\ Begin(s, [NewRequest("getPrompt", c) EXCEPT !.pid = id])
          /\ UNCHANGED resp

\* the handler without its look at the owner
GetPromptLookup_anyOwner(s) ==
  LET r == req[s]
      prompt == getPromptById(prompts, r.pid)
  IN
  /\ r.route = "getPrompt" /\ r.pc = "user"
  /\ UNCHANGED <<storeVars, today, okCount, deleted, pureVars>>
  /\ IF r.user = NoUser
     THEN Reply(s, Answer(r, "getPrompt", 404))
     ELSE IF prompt = NoPrompt
     THEN Reply(s, Answer(r, "getPrompt", 404))
     ELSE Reply(s, [Answer(r, "getPrompt", 200) EXCEPT !.ids = <<prompt.id>>])

GetPromptLookup(s) ==
  LET r == req[s]
      prompt == getPromptById(prompts, r.pid)
  IN
  /\ r.route = "getPrompt" /\ r.pc = "user"
  /\ UNCHANGED <<storeVars, today, okCount, deleted, pureVars>>
  /\ IF r.user = NoUser
     THEN Reply(s, Answer(r, "getPrompt", 404))
     ELSE IF prompt = NoPrompt \/ prompt.userId # r.user.id
     THEN Reply(s, Answer(r, "getPrompt", 404))
     ELSE Reply(s, [Answer(r, "getPrompt", 200) EXCEPT !.ids = <<prompt.id>>])

\* ------------------------------------------------ DELETE /api/prompts/:id
DeleteStart(s, c, id) ==
  /\ CanStart(s) /\ c \in Headers /\ id \in 1..promptIdCounter
  /\ UNCHANGED <<storeVars, today, okCount, deleted, pureVars>>
  /\ IF c = NoHeader
     THEN /\ resp' = [AnswerNow("delete", 401, c) EXCEPT !.pid = id]
          /\ UNCHANGED req
     ELSE /\ Begin(s, [NewRequest("delete", c) EXCEPT !.pid = id])
          /\ UNCHANGED resp

DeleteLookup(s) ==
  LET r == req[s] IN
  /\ r.route = "delete" /\ r.pc = "user"
  /\ UNCHANGED <<storeVars, today, okCount, deleted, pureVars>>
  /\ IF r.user = NoUser
     THEN Reply(s, Answer(r, "delete", 404))
     ELSE /\ Begin(s, [r EXCEPT !.pc = "prompt",
                                !.prompt = getPromptById(prompts, r.pid)])
          /\ UNCHANGED resp

DeleteApply(s) ==
  LET r == req[s] IN
  /\ r.route = "delete" /\ r.pc = "prompt"
  /\ UNCHANGED <<users, userIdCounter, promptIdCounter, today, okCount, pureVars>>
  /\ IF r.prompt = NoPrompt \/ r.prompt.userId # r.user.id
     THEN /\ UNCHANGED <<prompts, deleted, pureVars>>
          /\ Reply(s, Answer(r, "delete", 404))
     ELSE /\ prompts' = deletePrompt(prompts, r.pid)
          /\ deleted' = deleted \cup {r.pid}
          /\ Reply(s, [Answer(r, "delete", 200) EXCEPT
                         !.unchanged =
                            (prompts' = [i \in DOMAIN r.pre[2] \ {r.pid} |-> r.pre[2][i]])])

\* ------------------------------------ GET /api/users/me, /api/stats/usage
\* the handler without its check of the header
MeStart_noHeaderCheck(s, c) ==
  /\ CanStart(s) /\ c \in Headers
  /\ UNCHANGED <<storeVars, today, okCount, deleted, pureVars>>
  /\ Begin(s, NewRequest("me", c))
  /\ UNCHANGED resp

MeStart(s, c) ==
  /\ CanStart(s) /\ c \in Headers
  /\ UNCHANGED <<storeVars, today, okCount, deleted, pureVars>>
  /\ IF c = NoHeader
     THEN /\ resp' = AnswerNow("me", 401, c)
          /\ UNCHANGED req
     ELSE /\ Begin(s, NewRequest("me", c))
          /\ UNCHANGED resp

MeReply(s) ==
  LET r == req[s]
      q == [r EXCEPT !.day = today]
  IN
  /\ r.route = "me" /\ r.pc = "user"
  /\ UNCHANGED <<storeVars, today, okCount, deleted, pureVars>>
  /\ IF r.user = NoUser
     THEN Reply(s, Answer(q, "me", 404))
     ELSE Reply(s, [Answer(q, "me", 200) EXCEPT !.used = r.user.promptsUsedToday])

StatsStart(s, c) ==
  /\ CanStart(s) /\ c \in Headers
  /\ UNCHANGED <<storeVars, today, okCount, deleted, pureVars>>
  /\ IF c = NoHeader
     THEN /\ resp' = AnswerNow("stats", 401, c)
          /\ UNCHANGED req
     ELSE /\ Begin(s, NewRequest("stats", c))
          /\ UNCHANGED resp

StatsReply(s) ==
  LET r == req[s]
      q == [r EXCEPT !.day = today]
  IN
  /\ r.route = "stats" /\ r.pc = "user"
  /\ UNCHANGED <<storeVars, today, okCount, deleted, pureVars>>
  /\ IF r.user = NoUser
     THEN Reply(s, Answer(q, "stats", 404))
     ELSE Reply(s, [Answer(q, "stats", 200) EXCEPT
                      !.used = r.user.promptsUsedToday,
                      !.total = getUserUsageStats(prompts, r.user.id)])

\* ----------------------------------------------------------------- system
Pairs == (1..(MaxUserId + 1)) \X Days
\* the accounts of a run: c1 signs up through the API, c2 is a pro-plan account
FreeClerkIds == {"c1"}
ProClerkIds == {"c2"}

\* a pro-plan account, provisioned through MemStorage.createUser
SeedProUser(c) ==
  /\ \A s \in Slots : req[s] = Idle
  /\ getUserByClerkId(users, c) = NoUser
  /\ userIdCounter <= MaxUserId
  /\ users' = [i \in DOMAIN users \cup {userIdCounter} |->
                 IF i = userIdCounter THEN createUser(userIdCounter, c, "pro", today)
                 ELSE users[i]]
  /\ userIdCounter' = userIdCounter + 1
  /\ UNCHANGED <<prompts, promptIdCounter, today, req, resp, okCount, deleted, pureVars>>

\* ------------------------------------------------------ template routes
MaxTemplates == 3    \* templates the list ever holds
MaxUsage == 2        \* applications of one template that are counted

\* Template contents: one with the variable a, one whose variable name is an
\* opening parenthesis, one without a variable. <<>> is a missing content.
LContents == {<<"{", "{", "a", "}", "}">>, <<"{", "{", "(", "}", "}">>, <<"a">>}

NoTemplate == [id |-> 0, version |-> 0, previousVersionId |-> 0, userId |-> 0,
               createdAt |-> 0, content |-> <<>>, variables |-> <<>>,
               usageCount |-> 0]
NoTResp == [route |-> "", status |-> 0, valid |-> FALSE, threw |-> FALSE, id |-> 0,
            versions |-> <<>>]

\* generateId: a random string, taken here as the position of the push
generateId(ts) == Len(ts) + 1

createTemplate(id, userId, content, now) ==
  [id |-> id, version |-> 1, previousVersionId |-> 0, userId |-> userId,
   createdAt |-> now, content |-> content,
   variables |-> extractVariablesFromContent(content), usageCount |-> 0]

\* createTemplateVersion that stamps the new version with the current day
createTemplateVersion_restamps(existingTemplate, id, content) ==
  LET contentChanged == content # <<>> /\ content # existingTemplate.content IN
  [id |-> id, version |-> existingTemplate.version + 1,
   previousVersionId |-> existingTemplate.id,
   userId |-> existingTemplate.userId,
   createdAt |-> today,
   content |-> IF content # <<>> THEN content ELSE existingTemplate.content,
   variables |-> IF contentChanged THEN extractVariablesFromContent(content)
                 ELSE existingTemplate.variables,
   usageCount |-> 0]

createTemplateVersion(existingTemplate, id, content) ==
  LET contentChanged == content # <<>> /\ content # existingTemplate.content IN
  [id |-> id, version |-> existingTemplate.version + 1,
   previousVersionId |-> existingTemplate.id,
   userId |-> existingTemplate.userId,
   createdAt |-> existingTemplate.createdAt,
   content |-> IF content # <<>> THEN content ELSE existingTemplate.content,
   variables |-> IF contentChanged THEN extractVariablesFromContent(content)
                 ELSE existingTemplate.variables,
   usageCount |-> 0]

\* templates.find(t => t.id === templateId)
find(ts, templateId) ==
  IF \E k \in 1..Len(ts) : ts[k].id = templateId
  THEN ts[CHOOSE k \in 1..Len(ts) :
            ts[k].id = templateId /\ \A j \in 1..(k - 1) : ts[j].id # templateId]
  ELSE NoTemplate

\* new RegExp("\\{\\{" + name + "\\}\\}", "g") throws a SyntaxError when the
\* name opens a group it does not close
regexThrows(name) == \E i \in 1..Len(name) : name[i] = "("
applyTemplateThrows(template) ==
  \E k \in 1..Len(template.variables) : regexThrows(template.variables[k])

LibraryIdle == storedTemplates = <<>> /\ tResp = NoTResp

\* POST /api/templates/create. valid stands for the fields of the body other
\* than content, which the schema wants non-empty.
TemplatesCreate(userId, content, valid) ==
  /\ Len(storedTemplates) < MaxTemplates
  /\ IF ~(valid /\ content # <<>>)
     THEN /\ tResp' = [NoTResp EXCEPT !.route = "create", !.status = 400]
          /\ UNCHANGED storedTemplates
     ELSE IF getUser(users, userId) = NoUser
     THEN /\ tResp' = [NoTResp EXCEPT !.route = "create", !.status = 404,
                                      !.valid = TRUE]
          /\ UNCHANGED storedTemplates
     ELSE LET t == createTemplate(generateId(storedTemplates), userId, content, today) IN
          /\ storedTemplates' = Append(storedTemplates, t)
          /\ tResp' = [NoTResp EXCEPT !.route = "create", !.status = 201,
                                      !.valid = TRUE, !.id = t.id]
  /\ UNCHANGED <<serverVars, templateVars, qualityVars, enhanceVars, analyticsVars, cacheVars, validateVars,
                 blockVars, trendVars>>

\* POST /api/templates/:id/version. Every field of the body is optional.
TemplatesVersion(templateId, content, valid) ==
  /\ Len(storedTemplates) < MaxTemplates
  /\ IF ~valid
     THEN /\ tResp' = [NoTResp EXCEPT !.route = "version", !.status = 400]
          /\ UNCHANGED storedTemplates
     ELSE IF find(storedTemplates, templateId) = NoTemplate
     THEN /\ tResp' = [NoTResp EXCEPT !.route = "version", !.status = 404,
                                      !.valid = TRUE]
          /\ UNCHANGED storedTemplates
     ELSE LET t == createTemplateVersion(find(storedTemplates, templateId),
                                         generateId(storedTemplates), content) IN
          /\ storedTemplates' = Append(storedTemplates, t)
          /\ tResp' = [NoTResp EXCEPT !.route = "version", !.status = 201,
                                      !.valid = TRUE, !.id = t.id]
  /\ UNCHANGED <<serverVars, templateVars, qualityVars, enhanceVars, analyticsVars, cacheVars, validateVars,
                 blockVars, trendVars>>

\* POST /api/templates/:id/apply. The handler's one catch answers 400.
TemplatesApply(templateId, valid) ==
  LET template == find(storedTemplates, templateId) IN
  /\ template.usageCount < MaxUsage
  /\ IF ~valid
     THEN /\ tResp' = [NoTResp EXCEPT !.route = "apply", !.status = 400]
          /\ UNCHANGED storedTemplates
     ELSE IF template = NoTemplate
     THEN /\ tResp' = [NoTResp EXCEPT !.route = "apply", !.status = 404,
                                      !.valid = TRUE]
          /\ UNCHANGED storedTemplates
     ELSE IF applyTemplateThrows(template)
     THEN /\ tResp' = [NoTResp EXCEPT !.route = "apply", !.status = 400,
                                      !.valid = TRUE, !.threw = TRUE,
                                      !.id = templateId]
          /\ UNCHANGED storedTemplates
     ELSE /\ storedTemplates' = [k \in 1..Len(storedTemplates) |->
                             IF storedTemplates[k].id = templateId
                             THEN [storedTemplates[k] EXCEPT !.usageCount = @ + 1]
                             ELSE storedTemplates[k]]
          /\ tResp' = [NoTResp EXCEPT !.route = "apply", !.status = 200,
                                      !.valid = TRUE, !.id = templateId]
  /\ UNCHANGED <<serverVars, templateVars, qualityVars, enhanceVars, analyticsVars, cacheVars, validateVars,
                 blockVars, trendVars>>

\* the walk over previousVersionId: the templates found before the chain
\* ends or names a template that is not stored
RECURSIVE previousVersions(_, _)
previousVersions(ts, previousId) ==
  IF previousId = 0 \/ find(ts, previousId) = NoTemplate THEN <<>>
  ELSE <<find(ts, previousId)>>
       \o previousVersions(ts, find(ts, previousId).previousVersionId)

\* allVersions.sort((a, b) => b.version - a.version), a stable sort
RECURSIVE sortByVersion(_)
sortByVersion(vs) ==
  IF vs = <<>> THEN <<>>
  ELSE LET m == CHOOSE k \in 1..Len(vs) :
                  /\ \A j \in 1..Len(vs) : vs[j].version <= vs[k].version
                  /\ \A j \in 1..(k - 1) : vs[j].version < vs[k].version
       IN <<vs[m]>> \o sortByVersion(SubSeq(vs, 1, m - 1) \o SubSeq(vs, m + 1, Len(vs)))

\* GET /api/templates/:id/versions: the template, its previous versions, and
\* the templates whose previousVersionId is the requested id
TemplatesVersions(templateId) ==
  LET template == find(storedTemplates, templateId)
      newerVersions == SelectSeq(storedTemplates,
                                 LAMBDA t : t.previousVersionId = templateId)
      allVersions == <<template>>
                     \o previousVersions(storedTemplates, template.previousVersionId)
                     \o newerVersions
      sorted == sortByVersion(allVersions)
  IN
  /\ IF template = NoTemplate
     THEN tResp' = [NoTResp EXCEPT !.route = "versions", !.status = 404,
                                   !.valid = TRUE, !.id = templateId]
     ELSE tResp' = [NoTResp EXCEPT !.route = "versions", !.status = 200,
                                   !.valid = TRUE, !.id = templateId,
                                   !.versions = [k \in 1..Len(sorted) |-> sorted[k].id]]
  /\ UNCHANGED storedTemplates
  /\ UNCHANGED <<serverVars, templateVars, qualityVars, enhanceVars, analyticsVars,
                 cacheVars, validateVars,
                 blockVars, trendVars>>

\* ----------------------------------------------------- analytics routes
MaxPoints == 3       \* data points POST /api/analytics/track acknowledges

AnalyticsRoles == {"writer", "designer"}
DateRanges == {"today", "yesterday", "last7days"}
NoAResp == [route |-> "", status |-> 0, success |-> FALSE, range |-> "",
            now |-> 0, point |-> <<>>, counts |-> <<>>]

\* trackUsage: a new array, data and then newPoint
trackUsage(data, newPoint) == Append(data, newPoint)

\* filterByDateRange, timestamps counted in calendar days: startDate is the
\* start of a day, endDate one day after now (or the start of today)
inDateRange(timestamp, range, now) ==
  LET startDate == CASE range = "today" -> now
                     [] range = "yesterday" -> now - 1
                     [] range = "last7days" -> now - 7
      endDate == IF range = "yesterday" THEN now ELSE now + 1
  IN timestamp >= startDate /\ timestamp < endDate
filterByDateRange(data, range, now) ==
  SelectSeq(data, LAMBDA point : inDateRange(point.timestamp, range, now))

\* generateUsageBreakdown by role: role -> count over the filtered points
generateUsageBreakdown(data, range, now) ==
  LET filteredData == filterByDateRange(data, range, now) IN
  [role \in AnalyticsRoles |->
     Cardinality({k \in 1..Len(filteredData) : filteredData[k].role = role})]

AnalyticsIdle == usageData = <<>> /\ tracked = <<>> /\ aResp = NoAResp

\* POST /api/analytics/track: the array trackUsage returns is dropped, the
\* list usageData is left as it is
AnalyticsTrack(userId, role, valid) ==
  /\ Len(tracked) < MaxPoints
  /\ IF ~valid
     THEN /\ aResp' = [NoAResp EXCEPT !.route = "track", !.status = 400]
          /\ UNCHANGED <<usageData, tracked>>
     ELSE LET dataPoint == [userId |-> userId, role |-> role, timestamp |-> today]
              returned == trackUsage(usageData, dataPoint)
          IN /\ usageData' = usageData
             /\ tracked' = Append(tracked, dataPoint)
             /\ aResp' = [NoAResp EXCEPT !.route = "track", !.status = 200,
                                         !.success = TRUE, !.point = dataPoint]
  /\ UNCHANGED <<serverVars, templateVars, qualityVars, enhanceVars, libraryVars, cacheVars, validateVars,
                 blockVars, trendVars>>

\* GET /api/analytics/breakdown?breakdownBy=role
AnalyticsBreakdown(range) ==
  /\ aResp' = [NoAResp EXCEPT !.route = "breakdown", !.status = 200,
                              !.success = TRUE, !.range = range, !.now = today,
                              !.counts = generateUsageBreakdown(usageData, range, today)]
  /\ UNCHANGED <<usageData, tracked>>
  /\ UNCHANGED <<serverVars, templateVars, qualityVars, enhanceVars, libraryVars, cacheVars, validateVars,
                 blockVars, trendVars>>

\* ------------------------------------------------------ analytics cache
MaxCacheTime == 4    \* milliseconds that pass in a run
MaxAgeMs == 2        \* the largest maxAgeMs a call passes
MaxElapsed == 1      \* milliseconds computeFn takes at most

CacheKeys == {"k1", "k2"}
CacheValues == {"a", "b"}
Throws == "throws"   \* a computeFn that throws
NoEntry == [data |-> "", timestamp |-> 0 - 1]
NoCCall == [key |-> "", maxAgeMs |-> 0, at |-> 0, done |-> 0, cached |-> NoEntry,
            cacheBefore |-> <<>>, computeFn |-> "", invoked |-> 0,
            threw |-> FALSE, returned |-> ""]

\* an entry at least maxAgeMs old still counts
cacheHit_inclusive(cached, now, maxAgeMs) ==
  cached # NoEntry /\ now - cached.timestamp <= maxAgeMs
\* cached && (Date.now() - cached.timestamp < maxAgeMs)
cacheHit(cached, now, maxAgeMs) ==
  cached # NoEntry /\ now - cached.timestamp < maxAgeMs

CacheIdle ==
  /\ analyticsCache = [k \in CacheKeys |-> NoEntry]
  /\ cNow = 0
  /\ cCall = NoCCall

\* time passes between calls
CacheTick ==
  /\ cNow < MaxCacheTime
  /\ cNow' = cNow + 1
  /\ UNCHANGED <<analyticsCache, cCall>>
  /\ UNCHANGED <<serverVars, templateVars, qualityVars, enhanceVars, libraryVars,
                 analyticsVars, validateVars,
                 blockVars, trendVars>>

\* getCachedAnalytics(key, computeFn, maxAgeMs); computeFn is the value it
\* returns, or Throws; it takes elapsed milliseconds
getCachedAnalytics(key, computeFn, maxAgeMs, elapsed) ==
  LET cached == analyticsCache[key]
      call == [NoCCall EXCEPT !.key = key, !.maxAgeMs = maxAgeMs, !.at = cNow,
                              !.cached = cached, !.cacheBefore = analyticsCache,
                              !.computeFn = computeFn]
  IN
  /\ cNow + elapsed <= MaxCacheTime
  /\ IF cacheHit(cached, cNow, maxAgeMs)
     THEN /\ cCall' = [call EXCEPT !.returned = cached.data, !.done = cNow]
          /\ UNCHANGED <<analyticsCache, cNow>>
     ELSE /\ cNow' = cNow + elapsed
          /\ IF computeFn = Throws
             THEN /\ cCall' = [call EXCEPT !.invoked = 1, !.threw = TRUE,
                                           !.done = cNow']
                  /\ UNCHANGED analyticsCache
             ELSE /\ analyticsCache' = [analyticsCache EXCEPT
                                          ![key] = [data |-> computeFn,
                                                    timestamp |-> cNow']]
                  /\ cCall' = [call EXCEPT !.invoked = 1, !.returned = computeFn,
                                           !.done = cNow']
  /\ UNCHANGED <<serverVars, templateVars, qualityVars, enhanceVars, libraryVars,
                 analyticsVars, validateVars,
                 blockVars, trendVars>>

\* ----------------------------------------------------- validateTemplate
MaxPieces == 2       \* pieces a validated content is made of
MaxDefined == 3      \* variables of a validated template

\* the pieces of a content: tokens of the names a and b, a padded token, a
\* token of blanks, and plain text
VPieces == {<<"{", "{", "a", "}", "}">>, <<"{", "{", "b", "}", "}">>,
            <<"{", "{", " ", "a", "}", "}">>, <<"{", "{", " ", "}", "}">>, <<"x">>}
RECURSIVE concat(_)
concat(ps) == IF ps = <<>> THEN <<>> ELSE Head(ps) \o concat(Tail(ps))
VContents == {concat(ps) : ps \in UNION {[1..n -> VPieces] : n \in 0..MaxPieces}}
\* names of defined variables: a, b, the empty name and a blank
VNames == {<<"a">>, <<"b">>, <<>>, <<" ">>}
VVariables == UNION {[1..n -> VNames] : n \in 0..MaxDefined}
NoValidation == [isValid |-> FALSE, errors |-> <<>>, warnings |-> <<>>]

\* validateTemplate that looks at the undefined references only
validateTemplate_ignoresDefinitions(content, variables) ==
  LET variableReferences == extractVariablesFromContent(content)
      definedVariables == {variables[k] : k \in 1..Len(variables)}
      undefinedVars == SelectSeq(variableReferences, LAMBDA v : v \notin definedVariables)
      unusedVars == SelectSeq(variables, LAMBDA v :
                      ~\E k \in 1..Len(variableReferences) : variableReferences[k] = v)
      indices == [k \in 1..Len(variables) |-> k]
      duplicates == SelectSeq(indices, LAMBDA k :
                      \E j \in 1..(k - 1) : variables[j] = variables[k])
      errors ==
        [k \in 1..Len(undefinedVars) |-> [kind |-> "undefined", name |-> undefinedVars[k]]]
        \o (IF \E k \in 1..Len(variables) : trim(variables[k]) = <<>>
            THEN <<[kind |-> "empty", name |-> <<>>]>> ELSE <<>>)
        \o [k \in 1..Len(duplicates) |->
              [kind |-> "duplicate", name |-> variables[duplicates[k]]]]
  IN [isValid |-> undefinedVars = <<>>,
      errors |-> errors,
      warnings |-> [k \in 1..Len(unusedVars) |-> unusedVars[k]]]

\* validateTemplate: an error is its kind and the name in its message, a
\* warning the name in its message
validateTemplate(content, variables) ==
  LET variableReferences == extractVariablesFromContent(content)
      definedVariables == {variables[k] : k \in 1..Len(variables)}
      undefinedVars == SelectSeq(variableReferences, LAMBDA v : v \notin definedVariables)
      unusedVars == SelectSeq(variables, LAMBDA v :
                      ~\E k \in 1..Len(variableReferences) : variableReferences[k] = v)
      indices == [k \in 1..Len(variables) |-> k]
      duplicates == SelectSeq(indices, LAMBDA k :
                      \E j \in 1..(k - 1) : variables[j] = variables[k])
      errors ==
        [k \in 1..Len(undefinedVars) |-> [kind |-> "undefined", name |-> undefinedVars[k]]]
        \o (IF \E k \in 1..Len(variables) : trim(variables[k]) = <<>>
            THEN <<[kind |-> "empty", name |-> <<>>]>> ELSE <<>>)
        \o [k \in 1..Len(duplicates) |->
              [kind |-> "duplicate", name |-> variables[duplicates[k]]]]
  IN [isValid |-> errors = <<>>,
      errors |-> errors,
      warnings |-> [k \in 1..Len(unusedVars) |-> unusedVars[k]]]

ValidateIdle ==
  /\ vContent = <<>> /\ vVariables = <<>>
  /\ vResult = NoValidation /\ vPhase = "idle"

ValidateInit ==
  /\ vContent \in VContents /\ vVariables \in VVariables
  /\ vResult = NoValidation /\ vPhase = "ready"

Validate ==
  /\ vPhase = "ready"
  /\ vResult' = validateTemplate(vContent, vVariables)
  /\ vPhase' = "validated"
  /\ UNCHANGED <<vContent, vVariables>>
  /\ UNCHANGED <<serverVars, templateVars, qualityVars, enhanceVars, libraryVars,
                 analyticsVars, cacheVars,
                 blockVars, trendVars>>

\* -------------------------------------------------- prompt block builder
MaxBlockOps == 3     \* block operations applied to the default structure
MaxOrder == 7        \* the largest order reorderBlocks is asked for

BlockTypes == {"context", "goal", "tone", "audience", "constraints", "format",
               "examples", "custom"}
\* blockTemplates[type].required
required(type) == type \in {"context", "goal"}
\* blockTemplates[type].defaultContent, every default text taken as "d"
defaultContent(type) == IF type = "custom" THEN "" ELSE "d"

\* createBlock; id is what generateId draws, taken as fresh
createBlock(id, type, order, content) ==
  [id |-> id, type |-> type,
   content |-> IF content # "" THEN content ELSE defaultContent(type),
   order |-> order, required |-> required(type)]

\* [...blocks].sort((a, b) => a.order - b.order), a stable sort
RECURSIVE sortByOrder(_)
sortByOrder(bs) ==
  IF bs = <<>> THEN <<>>
  ELSE LET m == CHOOSE k \in 1..Len(bs) :
                  /\ \A j \in 1..Len(bs) : bs[j].order >= bs[k].order
                  /\ \A j \in 1..(k - 1) : bs[j].order > bs[k].order
       IN <<bs[m]>> \o sortByOrder(SubSeq(bs, 1, m - 1) \o SubSeq(bs, m + 1, Len(bs)))

\* combineBlocks: the label and content of each block with content, by order
combineBlocks(blocks) ==
  LET kept == SelectSeq(sortByOrder(blocks), LAMBDA block : block.content # "")
  IN [k \in 1..Len(kept) |-> <<kept[k].type, kept[k].content>>]

createDefaultPromptStructure ==
  LET blocks == <<createBlock(1, "context", 0, ""), createBlock(2, "goal", 1, ""),
                  createBlock(3, "audience", 2, ""), createBlock(4, "tone", 3, ""),
                  createBlock(5, "format", 4, ""), createBlock(6, "constraints", 5, "")>>
  IN [blocks |-> blocks, combinedPrompt |-> combineBlocks(blocks)]

\* promptStructure.blocks.find(b => b.id === blockId)
NoBlock == [id |-> 0, type |-> "", content |-> "", order |-> 0, required |-> FALSE]
findBlock(blocks, blockId) ==
  IF \E k \in 1..Len(blocks) : blocks[k].id = blockId
  THEN blocks[CHOOSE k \in 1..Len(blocks) :
                blocks[k].id = blockId /\ \A j \in 1..(k - 1) : blocks[j].id # blockId]
  ELSE NoBlock

RECURSIVE maxOrder(_)
maxOrder(blocks) ==
  IF blocks = <<>> THEN 0 - 1
  ELSE LET rest == maxOrder(Tail(blocks))
       IN IF Head(blocks).order > rest THEN Head(blocks).order ELSE rest

updateBlock(structure, blockId, content) ==
  LET updatedBlocks == [k \in 1..Len(structure.blocks) |->
                          IF structure.blocks[k].id = blockId
                          THEN [structure.blocks[k] EXCEPT !.content = content]
                          ELSE structure.blocks[k]]
  IN [blocks |-> updatedBlocks, combinedPrompt |-> combineBlocks(updatedBlocks)]

addBlock(structure, blockType, id) ==
  LET newBlock == createBlock(id, blockType, maxOrder(structure.blocks) + 1, "")
      updatedBlocks == Append(structure.blocks, newBlock)
  IN [blocks |-> updatedBlocks, combinedPrompt |-> combineBlocks(updatedBlocks)]

\* removeBlock without the look at required
removeBlock_ignoresRequired(structure, blockId) ==
  LET updatedBlocks == SelectSeq(structure.blocks, LAMBDA block : block.id # blockId)
  IN [blocks |-> updatedBlocks, combinedPrompt |-> combineBlocks(updatedBlocks)]

removeBlock(structure, blockId) ==
  LET blockToRemove == findBlock(structure.blocks, blockId)
      updatedBlocks == SelectSeq(structure.blocks, LAMBDA block : block.id # blockId)
  IN IF blockToRemove.required THEN structure
     ELSE [blocks |-> updatedBlocks, combinedPrompt |-> combineBlocks(updatedBlocks)]

reorderBlocks(structure, blockId, newOrder) ==
  LET blockToMove == findBlock(structure.blocks, blockId)
      moved(block) ==
        IF block.id = blockId THEN [block EXCEPT !.order = newOrder]
        ELSE IF blockToMove.order < newOrder /\ block.order > blockToMove.order
                /\ block.order <= newOrder
        THEN [block EXCEPT !.order = block.order - 1]
        ELSE IF blockToMove.order > newOrder /\ block.order >= newOrder
                /\ block.order < blockToMove.order
        THEN [block EXCEPT !.order = block.order + 1]
        ELSE block
      updatedBlocks == [k \in 1..Len(structure.blocks) |-> moved(structure.blocks[k])]
  IN IF blockToMove = NoBlock THEN structure
     ELSE [blocks |-> updatedBlocks, combinedPrompt |-> combineBlocks(updatedBlocks)]

NoStructure == [blocks |-> <<>>, combinedPrompt |-> <<>>]
NoBlockOp == [op |-> "", blockId |-> 0, given |-> NoStructure]

BlocksIdle ==
  /\ promptStructure = NoStructure /\ bNextId = 1 /\ bOps = 0 /\ bLast = NoBlockOp

BlocksInit ==
  /\ promptStructure = createDefaultPromptStructure
  /\ bNextId = 7 /\ bOps = 0 /\ bLast = NoBlockOp

\* one operation applied to the structure the one before returned
BlockOp(op, blockId, result) ==
  /\ bOps < MaxBlockOps
  /\ promptStructure' = result
  /\ bLast' = [op |-> op, blockId |-> blockId, given |-> promptStructure]
  /\ bOps' = bOps + 1
  /\ UNCHANGED <<serverVars, templateVars, qualityVars, enhanceVars, libraryVars,
                 analyticsVars, cacheVars, validateVars, trendVars>>

AddBlock(blockType) ==
  /\ BlockOp("add", bNextId, addBlock(promptStructure, blockType, bNextId))
  /\ bNextId' = bNextId + 1
RemoveBlock(blockId) ==
  /\ BlockOp("remove", blockId, removeBlock(promptStructure, blockId))
  /\ UNCHANGED bNextId
UpdateBlock(blockId, content) ==
  /\ BlockOp("update", blockId, updateBlock(promptStructure, blockId, content))
  /\ UNCHANGED bNextId
ReorderBlocks(blockId, newOrder) ==
  /\ BlockOp("reorder", blockId, reorderBlocks(promptStructure, blockId, newOrder))
  /\ UNCHANGED bNextId

\* ------------------------------------------------------- usage trends
MaxTrendPoints == 3  \* data points generateUsageTrends is given

\* timestamps are days of the year 2025, day 0 being 1 January, local time
TrendYear == 2025
TrendDays == {62, 63, 272, 273, 281, 282}
TrendNows == {64, 274, 283}
GroupBys == {"day", "week", "month"}

\* days of 2025 before the first day of each month
DaysBefore == <<0, 31, 59, 90, 120, 151, 181, 212, 243, 273, 304, 334>>
\* date.getMonth() + 1 and date.getDate()
monthOf(timestamp) ==
  CHOOSE mo \in 1..12 :
    /\ DaysBefore[mo] <= timestamp
    /\ mo = 12 \/ timestamp < DaysBefore[mo + 1]
dateOf(timestamp) == timestamp - DaysBefore[monthOf(timestamp)] + 1
\* Math.ceil(((date - 1 January) / 86400000 + 1) / 7)
weekNum(timestamp) == (timestamp + 1 + 6) \div 7

\* the UTF-16 code units of the decimal digits of n, of "-" and of "W"
RECURSIVE digits(_)
digits(n) == IF n < 10 THEN <<48 + n>> ELSE digits(n \div 10) \o <<48 + (n % 10)>>
Hyphen == 45
LetterW == 87

\* timeKey of a point under groupBy, as code units
timeKey(timestamp, groupBy) ==
  CASE groupBy = "day" ->
         digits(TrendYear) \o <<Hyphen>> \o digits(monthOf(timestamp))
           \o <<Hyphen>> \o digits(dateOf(timestamp))
    [] groupBy = "week" ->
         digits(TrendYear) \o <<Hyphen, LetterW>> \o digits(weekNum(timestamp))
    [] groupBy = "month" ->
         digits(TrendYear) \o <<Hyphen>> \o digits(monthOf(timestamp))

\* the order Array.prototype.sort() gives strings: by code units, a proper
\* prefix first
RECURSIVE lexLess(_, _)
lexLess(a, b) ==
  IF b = <<>> THEN FALSE
  ELSE IF a = <<>> THEN TRUE
  ELSE IF Head(a) # Head(b) THEN Head(a) < Head(b)
  ELSE lexLess(Tail(a), Tail(b))

\* [...timeGroups.keys()].sort()
RECURSIVE sortKeys(_)
sortKeys(keys) ==
  IF keys = {} THEN <<>>
  ELSE LET least == CHOOSE k \in keys : \A other \in keys \ {k} : lexLess(k, other)
       IN <<least>> \o sortKeys(keys \ {least})

\* [...new Set(filteredData.map(d => d.role))]: roles by first appearance
RECURSIVE rolesOf(_)
rolesOf(data) ==
  IF data = <<>> THEN <<>>
  ELSE LET before == rolesOf(SubSeq(data, 1, Len(data) - 1))
           role == data[Len(data)].role
       IN IF \E k \in 1..Len(before) : before[k] = role THEN before
          ELSE Append(before, role)

generateUsageTrends(data, range, groupBy, now) ==
  LET filteredData == filterByDateRange(data, range, now)
      roles == rolesOf(filteredData)
      keys == {timeKey(filteredData[k].timestamp, groupBy) : k \in 1..Len(filteredData)}
      sortedTimeKeys == sortKeys(keys)
      countOf(key, role) ==
        Cardinality({k \in 1..Len(filteredData) :
                       /\ timeKey(filteredData[k].timestamp, groupBy) = key
                       /\ filteredData[k].role = role})
  IN [timeLabels |-> sortedTimeKeys,
      datasets |-> [r \in 1..Len(roles) |->
                      [label |-> roles[r],
                       data |-> [k \in 1..Len(sortedTimeKeys) |->
                                   countOf(sortedTimeKeys[k], roles[r])]]]]

NoTrends == [timeLabels |-> <<>>, datasets |-> <<>>]
TrendPoints == [userId : {1}, role : AnalyticsRoles, timestamp : TrendDays]
TrendData == UNION {[1..n -> TrendPoints] : n \in 0..MaxTrendPoints}

TrendsIdle ==
  /\ trData = <<>> /\ trNow = 0 /\ trRange = "" /\ trGroupBy = ""
  /\ trResult = NoTrends /\ trPhase = "idle"

TrendsInit ==
  /\ trData \in TrendData /\ trNow \in TrendNows /\ trRange \in DateRanges
  /\ trGroupBy \in GroupBys /\ trResult = NoTrends /\ trPhase = "ready"

Trends ==
  /\ trPhase = "ready"
  /\ trResult' = generateUsageTrends(trData, trRange, trGroupBy, trNow)
  /\ trPhase' = "done"
  /\ UNCHANGED <<trData, trNow, trRange, trGroupBy>>
  /\ UNCHANGED <<serverVars, templateVars, qualityVars, enhanceVars, libraryVars,
                 analyticsVars, cacheVars, validateVars, blockVars>>

AddedIdle ==
  LibraryIdle /\ AnalyticsIdle /\ CacheIdle /\ ValidateIdle /\ BlocksIdle /\ TrendsIdle

ServerInit ==
  /\ users = <<>> /\ userIdCounter = 1
  /\ prompts = <<>> /\ promptIdCounter = 1
  /\ today = 0
  /\ req = [s \in Slots |-> Idle]
  /\ resp = NoResp
  /\ okCount = [p \in Pairs |-> 0]
  /\ deleted = {}
  /\ TemplateIdle
  /\ QualityIdle
  /\ EnhanceIdle
  /\ AddedIdle

\* the steps of handlers in flight
QuotaContinue(s) ==
  \/ ClerkCreate(s)
  \/ ResetUserPromptUsageWrite(s)
  \/ IncrementUserPromptUsageWrite(s)
  \/ EnhanceCheck(s)
  \/ EnhanceAfterReset(s)
  \/ EnhanceCreate(s)
  \/ GenerateCheck(s)
  \/ GenerateAfterReset(s)
  \/ GenerateCreate(s)
  \/ MeReply(s)
  \/ StatsReply(s)

QuotaArrive(s, cap) ==
  \/ \E c \in FreeClerkIds : ClerkStart(s, c)
  \/ \E c \in Headers, t \in Texts, ro \in Roles :
       Room(cap) /\ ProRoom(c) /\ EnhanceStart(s, c, t, ro)
  \/ \E c \in Headers, save \in BOOLEAN, adv \in BOOLEAN, t \in Texts, ro \in Roles :
       (save => Room(cap) /\ ProRoom(c)) /\ GenerateStart(s, c, save, adv, t, ro)
  \/ \E c \in Headers : MeStart(s, c)
  \/ \E c \in Headers : StatsStart(s, c)

StoreContinue(s) ==
  \/ SaveCreate(s)
  \/ HistoryReply(s)
  \/ GetPromptLookup(s)
  \/ DeleteLookup(s)
  \/ DeleteApply(s)

StoreArrive(s, cap) ==
  \/ \E c \in Headers, t \in Texts, ro \in Roles : Room(cap) /\ SaveStart(s, c, t, ro)
  \/ \E c \in Headers : HistoryStart(s, c)
  \/ \E c \in Headers, id \in 1..MaxPromptId + 1 : GetPromptStart(s, c, id)
  \/ \E c \in Headers, id \in 1..MaxPromptId + 1 : DeleteStart(s, c, id)

\* the response has left the server; the next step is taken after that
ResponseSent ==
  /\ resp # NoResp
  /\ resp' = NoResp
  /\ UNCHANGED <<storeVars, today, req, okCount, deleted, pureVars>>

Ready == resp = NoResp

\* the whole API under sequential request handling: one handler in flight
Next ==
  \/ ResponseSent
  \/ Ready /\ Tick
  \/ Ready /\ \E c \in ProClerkIds : SeedProUser(c)
  \/ Ready /\ QuotaArrive(1, MaxPromptId)
  \/ Ready /\ QuotaContinue(1)
  \/ Ready /\ StoreArrive(1, MaxPromptId)
  \/ Ready /\ StoreContinue(1)
Spec == ServerInit /\ [][Next]_vars

\* the routes that touch the usage counter, one handler in flight
NextQuota ==
  \/ ResponseSent
  \/ Ready /\ Tick
  \/ Ready /\ \E c \in ProClerkIds : SeedProUser(c)
  \/ Ready /\ QuotaArrive(1, MaxQuotaPrompts)
  \/ Ready /\ QuotaContinue(1)
SpecQuota == ServerInit /\ [][NextQuota]_vars

\* one calendar day of the routes that touch the usage counter, with the
\* handlers of two requests interleaving at their awaits
RaceContinue(s) ==
  \/ ClerkCreate(s)
  \/ IncrementUserPromptUsageWrite(s)
  \/ EnhanceCheck(s)
  \/ EnhanceCreate(s)
  \/ GenerateCheck(s)
  \/ GenerateCreate(s)

RaceArrive(s) ==
  \/ \E c \in FreeClerkIds : ClerkStart(s, c)
  \/ \E c \in FreeClerkIds, t \in Texts, ro \in Roles :
       Room(MaxQuotaPrompts) /\ EnhanceStart(s, c, t, ro)
  \/ \E c \in FreeClerkIds, t \in Texts, ro \in Roles :
       Room(MaxQuotaPrompts) /\ GenerateStart(s, c, TRUE, FALSE, t, ro)

NextRace ==
  \/ ResponseSent
  \/ Ready /\ \E s \in Slots : RaceArrive(s)
  \/ Ready /\ \E s \in Slots : RaceContinue(s)
SpecRace == ServerInit /\ [][NextRace]_vars

\* a template is created, versioned and applied
ServerIdle ==
  /\ users = <<>> /\ userIdCounter = 1
  /\ prompts = <<>> /\ promptIdCounter = 1
  /\ today = 0
  /\ req = [s \in Slots |-> Idle]
  /\ resp = NoResp
  /\ okCount = [p \in Pairs |-> 0]
  /\ deleted = {}

NextTemplate ==
  \/ CreateTemplate /\ UNCHANGED <<serverVars, qualityVars, enhanceVars, addedVars>>
  \/ \E c \in TUpdates : CreateTemplateVersion(c) /\ UNCHANGED <<serverVars, qualityVars, enhanceVars, addedVars>>
  \/ ApplyTemplate /\ UNCHANGED <<serverVars, qualityVars, enhanceVars, addedVars>>
InitTemplate == ServerIdle /\ TemplateInit /\ QualityIdle /\ EnhanceIdle /\ AddedIdle
SpecTemplate == InitTemplate /\ [][NextTemplate]_vars

\* texts are analysed, a vague term is inserted, the text is analysed again
NextQuality ==
  \/ Analyze /\ UNCHANGED <<serverVars, templateVars, enhanceVars, addedVars>>
  \/ \E pos \in 1..(Len(qText) + 1), term \in VagueTerms :
       InsertVague(pos, term) /\ UNCHANGED <<serverVars, templateVars, enhanceVars, addedVars>>
  \/ AnalyzeInserted /\ UNCHANGED <<serverVars, templateVars, enhanceVars, addedVars>>
InitQuality == ServerIdle /\ TemplateIdle /\ QualityInit /\ EnhanceIdle /\ AddedIdle
SpecQuality == InitQuality /\ [][NextQuality]_vars

\* the client calls enhancePrompt, once with another input, and repeats its
\* first call
NextEnhance ==
  \/ \E originalPrompt \in EPrompts, role \in UserRoles, shouldAddSections \in BOOLEAN :
       /\ ~eMixed
       /\ EnhanceCall(originalPrompt, role, shouldAddSections)
       /\ UNCHANGED <<serverVars, templateVars, qualityVars, addedVars>>
  \/ /\ eCalls >= 1
     /\ EnhanceCall(eFirst.input[1], eFirst.input[2], eFirst.input[3])
     /\ UNCHANGED <<serverVars, templateVars, qualityVars, addedVars>>
InitEnhance == ServerIdle /\ TemplateIdle /\ QualityIdle /\ EnhanceIdle /\ AddedIdle
SpecEnhance == InitEnhance /\ [][NextEnhance]_vars

\* sign-up, save and delete, one handler in flight, over prompts of two
\* texts and two roles
StoreTexts == {"t", "u"}
StoreRoles == {"writer", "designer"}
NextStore ==
  \/ ResponseSent
  \/ Ready /\ Tick
  \/ Ready /\ \E c \in ProClerkIds : SeedProUser(c)
  \/ Ready /\ \E c \in FreeClerkIds : ClerkStart(1, c)
  \/ Ready /\ ClerkCreate(1)
  \/ Ready /\ \E c \in Headers, t \in StoreTexts, ro \in StoreRoles :
                Room(MaxPromptId) /\ SaveStart(1, c, t, ro)
  \/ Ready /\ SaveCreate(1)
  \/ Ready /\ \E c \in Headers, id \in 1..MaxPromptId + 1 : DeleteStart(1, c, id)
  \/ Ready /\ DeleteLookup(1)
  \/ Ready /\ DeleteApply(1)
SpecStore == ServerInit /\ [][NextStore]_vars

\* enhance and generate of a pro-plan account, past the free plan's limit
NextPro ==
  \/ ResponseSent
  \/ Ready /\ Tick
  \/ Ready /\ \E c \in ProClerkIds : SeedProUser(c)
  \/ Ready /\ \E c \in ProClerkIds, t \in Texts, ro \in Roles :
                Room(MaxQuotaPrompts) /\ EnhanceStart(1, c, t, ro)
  \/ Ready /\ EnhanceCheck(1)
  \/ Ready /\ IncrementUserPromptUsageWrite(1)
  \/ Ready /\ EnhanceCreate(1)
  \/ Ready /\ \E c \in ProClerkIds, save \in BOOLEAN, adv \in BOOLEAN,
                 t \in Texts, ro \in Roles :
                (save => Room(MaxQuotaPrompts)) /\ GenerateStart(1, c, save, adv, t, ro)
  \/ Ready /\ GenerateCheck(1)
  \/ Ready /\ GenerateCreate(1)
SpecPro == ServerInit /\ [][NextPro]_vars

\* save and history over more days than the free plan's history reaches back
MaxHistoryDay == 8   \* days that pass in a run of save and history
Midnight(lastDay) ==
  /\ today < lastDay
  /\ today' = today + 1
  /\ UNCHANGED <<storeVars, req, resp, okCount, deleted, pureVars>>

NextHistory ==
  \/ ResponseSent
  \/ Ready /\ Midnight(MaxHistoryDay)
  \/ Ready /\ \E c \in ProClerkIds : SeedProUser(c)
  \/ Ready /\ \E c \in FreeClerkIds : ClerkStart(1, c)
  \/ Ready /\ ClerkCreate(1)
  \/ Ready /\ \E c \in Headers, t \in Texts, ro \in Roles :
                Room(MaxPromptId) /\ SaveStart(1, c, t, ro)
  \/ Ready /\ SaveCreate(1)
  \/ Ready /\ \E c \in Headers : HistoryStart(1, c)
  \/ Ready /\ HistoryReply(1)
SpecHistory == ServerInit /\ [][NextHistory]_vars

\* validateTemplate on every content and every list of variables
NextValidate == Validate
InitValidate ==
  /\ ServerIdle /\ TemplateIdle /\ QualityIdle /\ EnhanceIdle
  /\ LibraryIdle /\ AnalyticsIdle /\ CacheIdle /\ ValidateInit /\ BlocksIdle
  /\ TrendsIdle
SpecValidate == InitValidate /\ [][NextValidate]_vars

\* block operations on the default structure; an id one past the ids drawn
\* is an unknown id
NextBlocks ==
  \/ \E blockType \in {"context", "tone", "custom"} : AddBlock(blockType)
  \/ \E blockId \in 1..bNextId : RemoveBlock(blockId)
  \/ \E blockId \in 1..bNextId, content \in {"", "x"} : UpdateBlock(blockId, content)
  \/ \E blockId \in 1..bNextId, newOrder \in {0, 3, MaxOrder} :
       ReorderBlocks(blockId, newOrder)
InitBlocks ==
  /\ ServerIdle /\ TemplateIdle /\ QualityIdle /\ EnhanceIdle
  /\ LibraryIdle /\ AnalyticsIdle /\ CacheIdle /\ ValidateIdle /\ BlocksInit
  /\ TrendsIdle
SpecBlocks == InitBlocks /\ [][NextBlocks]_vars

\* one call of generateUsageTrends on every data set of the bounds
NextTrends == Trends
InitTrends ==
  /\ ServerIdle /\ TemplateIdle /\ QualityIdle /\ EnhanceIdle
  /\ LibraryIdle /\ AnalyticsIdle /\ CacheIdle /\ ValidateIdle /\ BlocksIdle
  /\ TrendsInit
SpecTrends == InitTrends /\ [][NextTrends]_vars

\* calls of getCachedAnalytics as time passes
NextCache ==
  \/ CacheTick
  \/ \E key \in CacheKeys, computeFn \in CacheValues \cup {Throws},
        maxAgeMs \in 0..MaxAgeMs, elapsed \in 0..MaxElapsed :
       getCachedAnalytics(key, computeFn, maxAgeMs, elapsed)
SpecCache == ServerInit /\ [][NextCache]_vars

\* the analytics routes over two days
NextAnalytics ==
  \/ Tick
  \/ \E userId \in 1..MaxUserId, role \in AnalyticsRoles, valid \in BOOLEAN :
       AnalyticsTrack(userId, role, valid)
  \/ \E range \in DateRanges : AnalyticsBreakdown(range)
SpecAnalytics == ServerInit /\ [][NextAnalytics]_vars

\* templates of two users created, versioned and applied over two days
NextChain ==
  \/ Tick
  \/ ResponseSent
  \/ Ready /\ \E c \in FreeClerkIds : ClerkStart(1, c)
  \/ Ready /\ ClerkCreate(1)
  \/ Ready /\ \E c \in ProClerkIds : SeedProUser(c)
  \/ \E userId \in 1..MaxUserId, content \in LContents :
       TemplatesCreate(userId, content, TRUE)
  \/ \E id \in 1..MaxTemplates, content \in LContents \cup {<<>>} :
       TemplatesVersion(id, content, TRUE)
  \/ \E id \in 1..MaxTemplates : TemplatesApply(id, TRUE)
SpecChain == ServerInit /\ [][NextChain]_vars

\* the template routes, with the sign-up that provides their users
NextLibrary ==
  \/ ResponseSent
  \/ Ready /\ \E c \in FreeClerkIds : ClerkStart(1, c)
  \/ Ready /\ ClerkCreate(1)
  \/ Ready /\ \E c \in ProClerkIds : SeedProUser(c)
  \/ \E userId \in 1..MaxUserId, content \in LContents \cup {<<>>}, valid \in BOOLEAN :
       TemplatesCreate(userId, content, valid)
  \/ \E id \in 1..MaxTemplates, content \in LContents \cup {<<>>}, valid \in BOOLEAN :
       TemplatesVersion(id, content, valid)
  \/ \E id \in 1..MaxTemplates, valid \in BOOLEAN : TemplatesApply(id, valid)
  \/ \E id \in 1..MaxTemplates : TemplatesVersions(id)
SpecLibrary == ServerInit /\ [][NextLibrary]_vars

\* ----------------------------------------------------------------- claims
FreeUsers == {i \in DOMAIN users : users[i].plan = "free"}
Known(c) == \E i \in DOMAIN users : users[i].clerkId = c
Range(q) == {q[k] : k \in 1..Len(q)}

\* C1: under sequential handling, a POST /api/prompts/enhance of a free-plan
\* user that is checked on a day on which 10 saved enhancements of that user
\* were already counted is answered 402, and the store is then as the request
\* found it (users, prompts and both id counters).
C1_BlockedAtLimit ==
  (resp.route = "enhance" /\ resp.plan = "free"
     /\ resp.before >= FREE_TIER_DAILY_LIMIT)
  => (resp.status = 402 /\ resp.unchanged)

C1_Witness ==
  /\ resp.route = "enhance" /\ resp.plan = "free"
  /\ resp.before = FREE_TIER_DAILY_LIMIT
  /\ resp.status = 402
  /\ Cardinality(DOMAIN prompts) >= FREE_TIER_DAILY_LIMIT

\* C2: a POST /api/prompts/enhance of a free-plan user, checked on a calendar
\* day other than the day of the user's lastPromptDate, is answered with
\* saved: true (never 402), and promptsUsedToday is 1 after it.
C2_UnblockedAfterRollover ==
  (resp.route = "enhance" /\ resp.rolled)
  => (resp.status = 200 /\ resp.saved /\ resp.used = 1)

C2_Witness ==
  /\ resp.route = "enhance" /\ resp.rolled
  /\ resp.seen >= FREE_TIER_DAILY_LIMIT
  /\ resp.status = 200 /\ resp.saved /\ resp.used = 1

\* C3: for every interleaving of the handlers, a free-plan user never has
\* more than 10 prompts stored through enhance or generate on one calendar day.
C3_CapUnderInterleaving ==
  \A i \in FreeUsers, d \in Days :
    Cardinality({p \in DOMAIN prompts :
                   prompts[p].userId = i /\ prompts[p].createdAt = d})
      <= FREE_TIER_DAILY_LIMIT

\* C4: the promptsUsedToday reported by GET /api/users/me and
\* GET /api/stats/usage never exceeds the number of usage increments made for
\* that user on the calendar day of the response.
C4_ReportsTodayOnly ==
  (resp.route \in {"me", "stats"} /\ resp.status = 200)
  => resp.used <= okCount[<<resp.uid, resp.day>>]

\* C5: a prompt removed by a successful DELETE is not in the store again, is
\* in no later history response, and a later GET for it by a request carrying
\* a clerk id is answered 404; the DELETE leaves every other prompt as it was.
C5_DeletedStaysGone ==
  /\ deleted \cap DOMAIN prompts = {}
  /\ resp.route = "history" => Range(resp.ids) \cap deleted = {}
  /\ (resp.route = "getPrompt" /\ resp.clerk # NoHeader /\ resp.pid \in deleted)
       => resp.status = 404
  /\ (resp.route = "delete" /\ resp.status = 200) => resp.unchanged

C5_Witness ==
  /\ resp.route = "history" /\ resp.status = 200
  /\ resp.ids # <<>>
  /\ \E p \in deleted : p < resp.ids[1]

\* a {{...}} token, as extractVariablesFromContent finds them
HasToken(c) == \E i \in 1..Len(c) : tokenEnd(c, i) # 0

\* C6: the text applyTemplate returns for a template built by createTemplate
\* or createTemplateVersion, with a value supplied for each of its
\* variables, contains no {{...}} token.
C6_NoTokenLeft == tPhase = "applied" => ~HasToken(tResult)

\* C7: inserting one more occurrence of a vague term into a text, the rest
\* unchanged, never yields a higher analyzePromptQuality score than the
\* text had before the insertion.
C7_MonotoneInVagueTerms == qPhase = "compared" => qResult.score <= qPrev

\* C8: two calls of enhancePrompt with the same originalPrompt, role and
\* shouldAddSections return the same original, enhanced text, word counts
\* and specificity, whatever calls were made before or between them.
C8_EnhanceDeterministic ==
  (eCalls >= 2 /\ eLast.input = eFirst.input) => eLast.result = eFirst.result
C8_Witness ==
  /\ eCalls >= 3 /\ eMixed
  /\ eLast.input = eFirst.input /\ eFirst.input[1] # <<>>
  /\ eLast.result.enhanced # eLast.result.original

\* C9: the score analyzePromptQuality returns is an integer from 0 to 100
\* for every text, and the bands of generateOverallFeedback, the one from
\* 90 up included, are reached by some text.
C9_ScoreInRange ==
  qPhase \in {"analyzed", "compared"} => qResult.score \in 0..100
C9_Witness ==
  /\ qPhase = "analyzed" /\ qResult.score >= 90
  /\ qResult.overallFeedback = "excellent"

Gated == {"save", "history", "getPrompt", "delete", "stats", "me"}

\* C10 as stated: on a gated endpoint a request without the x-clerk-user-id
\* header, or with one that names no stored user, is answered 401 and the
\* store is unchanged.
C10_UnknownAuthIs401 ==
  (resp.route \in Gated /\ (resp.clerk = NoHeader \/ ~Known(resp.clerk)))
  => (resp.status = 401 /\ resp.unchanged)

\* C10 amended: on a gated endpoint a request (with a valid body) without the
\* header is answered 401, one whose header names no stored user is answered
\* 404, and either leaves the store unchanged.
C10_MissingIs401UnknownIs404 ==
  /\ (resp.route \in Gated /\ resp.clerk = NoHeader)
       => (resp.status = 401 /\ resp.unchanged)
  /\ (resp.route \in Gated /\ resp.clerk # NoHeader /\ ~Known(resp.clerk))
       => (resp.status = 404 /\ resp.unchanged)

C10_Witness ==
  /\ resp.route = "delete" /\ resp.clerk = NoHeader
  /\ resp.status = 401 /\ resp.unchanged
  /\ resp.pid \in DOMAIN prompts

\* C11: on the template routes, a body that fails validation is answered
\* 400, and a failure raised after validation has passed is answered 500.
C11_FailureAfterValidationIs500 ==
  tResp.route # "" =>
    /\ ~tResp.valid => tResp.status = 400
    /\ tResp.valid /\ tResp.threw => tResp.status = 500

\* C15: no two stored templates name the same template as their previous
\* version.
C15_NoBranching ==
  \A i, j \in 1..Len(storedTemplates) :
    i # j /\ storedTemplates[i].previousVersionId # 0
      => storedTemplates[i].previousVersionId # storedTemplates[j].previousVersionId

\* C12: when the handler of a POST /api/prompts/generate with
\* useEnhancedAlgorithm = true of a free-plan user takes its step after the
\* user was read, it answers 403 and leaves users, prompts and both id
\* counters as they are; and a response with isEnhanced = true is a response
\* to a pro-plan user.
C12_AdvancedIsProOnly ==
  [][/\ \A s \in Slots :
          req[s].route \in {"generate", "generateOnly"} /\ req[s].pc = "user"
          /\ req[s].adv /\ req[s].user.plan = "free" /\ req'[s] # req[s]
            => /\ resp'.route = "generate" /\ resp'.status = 403
               /\ req'[s] = Idle
               /\ storeVars' = storeVars
     /\ resp'.isEnhanced => resp'.plan = "pro"]_vars
C12_Witness ==
  /\ resp.route = "generate" /\ resp.status = 403 /\ resp.plan = "free"
  /\ resp.unchanged /\ ~resp.isEnhanced
  /\ users[resp.uid].promptsUsedToday > 0

\* C13: a 200 response of GET /api/prompts/history lists, for a free-plan
\* user, exactly the stored prompts of that user created within the last 7
\* days, and for a pro-plan user exactly all stored prompts of that user; so
\* it never lists a prompt of another user.
C13_HistoryByPlan ==
  resp.route = "history" /\ resp.status = 200 =>
    /\ resp.plan \in {"free", "pro"}
    /\ Range(resp.ids) =
         {i \in DOMAIN prompts :
            /\ prompts[i].userId = resp.uid
            /\ resp.plan = "free" => prompts[i].createdAt >= today - HISTORY_LIMIT_DAYS}
    /\ \A j, k \in 1..Len(resp.ids) : j # k => resp.ids[j] # resp.ids[k]
C13_Witness ==
  /\ resp.route = "history" /\ resp.status = 200 /\ resp.plan = "free"
  /\ resp.ids # <<>>
  /\ \E i \in DOMAIN prompts :
       prompts[i].userId = resp.uid /\ prompts[i].createdAt < today - HISTORY_LIMIT_DAYS
  /\ \E i \in DOMAIN prompts : prompts[i].userId # resp.uid

\* C14: no response to a pro-plan user has status 402, whatever the user's
\* promptsUsedToday is.
C14_ProNever402 ==
  resp.plan = "pro" => resp.status # 402
C14_Witness ==
  /\ resp.route \in {"enhance", "generate"} /\ resp.plan = "pro"
  /\ resp.status = 200 /\ resp.saved
  /\ resp.seen >= FREE_TIER_DAILY_LIMIT

\* C16: every data point that POST /api/analytics/track acknowledged with
\* success: true is in the usage log, and a later breakdown counts, for every
\* role, at least the acknowledged points of that role whose timestamp is in
\* its date range.
C16_LogIsAdditive ==
  /\ \A k \in 1..Len(tracked) : \E j \in 1..Len(usageData) : usageData[j] = tracked[k]
  /\ aResp.route = "breakdown" =>
       \A role \in AnalyticsRoles :
         aResp.counts[role] >=
           Cardinality({k \in 1..Len(tracked) :
                          /\ tracked[k].role = role
                          /\ inDateRange(tracked[k].timestamp, aResp.range, aResp.now)})

\* C17: a prompt that is in the store before and after a step has the same
\* text (originalPrompt and enhancedPrompt), role, userId and createdAt after
\* it as before.
C17_PromptImmutable ==
  [][\A id \in DOMAIN prompts :
       id \in DOMAIN prompts' => prompts'[id] = prompts[id]]_vars
C17_Witness ==
  /\ deleted # {}
  /\ \E i, j \in DOMAIN prompts :
       /\ i < j /\ prompts[i].createdAt < prompts[j].createdAt
       /\ prompts[i].text # prompts[j].text /\ prompts[i].role # prompts[j].role

\* C19: userIdCounter and promptIdCounter never decrease; a user or prompt
\* that enters the store has the counter's value as its id, above every id
\* in the store and every id deleted before, and the counter moves on by one.
C19_IdsNeverReused ==
  [][/\ userIdCounter' >= userIdCounter /\ promptIdCounter' >= promptIdCounter
     /\ \A id \in DOMAIN prompts' \ DOMAIN prompts :
          /\ id = promptIdCounter /\ promptIdCounter' = id + 1
          /\ prompts'[id].id = id
          /\ \A j \in DOMAIN prompts \cup deleted : j < id
     /\ \A id \in DOMAIN users' \ DOMAIN users :
          /\ id = userIdCounter /\ userIdCounter' = id + 1
          /\ users'[id].id = id
          /\ \A j \in DOMAIN users : j < id]_vars
C19_Witness ==
  /\ Cardinality(DOMAIN users) = MaxUserId
  /\ \E d \in deleted, i \in DOMAIN prompts : d < i /\ d + 1 \notin DOMAIN prompts

\* C18: a call of getCachedAnalytics that finds an entry younger than
\* maxAgeMs returns the entry's value, does not invoke computeFn and leaves
\* the cache as it is; any other call invokes computeFn once and, when it
\* returns, stores its result under the key with the time of the store and
\* returns it; when computeFn throws the cache is left as it was.
C18_CacheContract ==
  cCall.key # "" =>
    LET young == /\ cCall.cached # NoEntry
                 /\ cCall.at - cCall.cached.timestamp < cCall.maxAgeMs
    IN /\ young => /\ cCall.invoked = 0 /\ ~cCall.threw
                   /\ cCall.returned = cCall.cached.data
                   /\ analyticsCache = cCall.cacheBefore
       /\ ~young => cCall.invoked = 1
       /\ ~young /\ ~cCall.threw =>
            /\ cCall.returned = cCall.computeFn
            /\ cCall.at <= cCall.done /\ cCall.done <= cNow
            /\ analyticsCache = [cCall.cacheBefore EXCEPT
                                   ![cCall.key] = [data |-> cCall.computeFn,
                                                   timestamp |-> cCall.done]]
       /\ ~young /\ cCall.threw =>
            /\ cCall.computeFn = Throws
            /\ analyticsCache = cCall.cacheBefore
C18_Witness ==
  /\ cCall.threw /\ cCall.cached # NoEntry
  /\ cCall.at - cCall.cached.timestamp = cCall.maxAgeMs
  /\ analyticsCache[cCall.key] = cCall.cached
  /\ \E k \in CacheKeys : k # cCall.key /\ analyticsCache[k] # NoEntry

\* C20: validateTemplate reports one undefined-variable error for every name
\* that the content references and no variable of the template has, and none
\* for any other name; one warning for every variable of the template whose
\* name the content does not reference, and none for a referenced name; and
\* isValid is true exactly when the list of errors is empty.
C20_ValidateReports ==
  vPhase = "validated" =>
    LET referenced == Range(extractVariablesFromContent(vContent))
        defined == Range(vVariables)
        errorsFor(name) == {k \in 1..Len(vResult.errors) :
                              vResult.errors[k] = [kind |-> "undefined", name |-> name]}
        warningsFor(name) == {k \in 1..Len(vResult.warnings) : vResult.warnings[k] = name}
        entries(name) == {k \in 1..Len(vVariables) : vVariables[k] = name}
    IN /\ \A name \in referenced \cup defined :
            /\ Cardinality(errorsFor(name)) =
                 IF name \in referenced \ defined THEN 1 ELSE 0
            /\ Cardinality(warningsFor(name)) =
                 IF name \in referenced THEN 0 ELSE Cardinality(entries(name))
       /\ Len(vResult.warnings) = Cardinality({k \in 1..Len(vVariables) :
                                                 vVariables[k] \notin referenced})
       /\ vResult.isValid <=> vResult.errors = <<>>
C20_Witness ==
  /\ vPhase = "validated" /\ ~vResult.isValid
  /\ vContent = <<"{", "{", "a", "}", "}", "{", "{", " ", "a", "}", "}">>
  /\ vVariables = <<<<"b">>, <<"b">>>>
  /\ Len(vResult.errors) = 2 /\ Len(vResult.warnings) = 2

\* C21: the result of enhancePrompt has wordCount.enhanced equal to the
\* number of words of its enhanced text and wordCount.original equal to the
\* number of words of the trimmed original prompt, the empty prompt included.
C21_WordCountsMatch ==
  eCalls >= 1 =>
    /\ eLast.result.wordCount.enhanced = countWords(eLast.result.enhanced)
    /\ eLast.result.wordCount.original = countWords(eLast.input[1])

\* the templates a template descends from, through previousVersionId
RECURSIVE Ancestors(_)
Ancestors(id) ==
  LET p == find(storedTemplates, id).previousVersionId
  IN IF p = 0 \/ find(storedTemplates, p) = NoTemplate THEN {}
     ELSE {p} \cup Ancestors(p)
Descendants(id) == {storedTemplates[k].id : k \in {j \in 1..Len(storedTemplates) :
                                             id \in Ancestors(storedTemplates[j].id)}}

\* C22: a 200 response of GET /api/templates/:id/versions lists the
\* requested template, every ancestor of it and every descendant of it at
\* any depth, each once, by descending version number.
C22_AllVersionsOfChain ==
  tResp.route = "versions" /\ tResp.status = 200 =>
    /\ Range(tResp.versions) = {tResp.id} \cup Ancestors(tResp.id) \cup Descendants(tResp.id)
    /\ \A j, k \in 1..Len(tResp.versions) :
         j < k => /\ tResp.versions[j] # tResp.versions[k]
                  /\ find(storedTemplates, tResp.versions[j]).version
                       >= find(storedTemplates, tResp.versions[k]).version

\* C23: after every step, a stored template with a previousVersionId points
\* at a stored template of the version one less, the same userId and the
\* same createdAt, and a template without one has version 1; a template
\* enters the list with usageCount 0; and a step that adds a template leaves
\* the templates stored before as they are.
C23_ChainWellFormed ==
  [][/\ \A k \in 1..Len(storedTemplates') :
          LET t == storedTemplates'[k]
              p == find(storedTemplates', t.previousVersionId)
          IN IF t.previousVersionId = 0 THEN t.version = 1
             ELSE /\ p # NoTemplate
                  /\ p.version = t.version - 1
                  /\ p.userId = t.userId /\ p.createdAt = t.createdAt
     /\ Len(storedTemplates') >= Len(storedTemplates)
     /\ \A k \in (Len(storedTemplates) + 1)..Len(storedTemplates') :
          storedTemplates'[k].usageCount = 0
     /\ Len(storedTemplates') > Len(storedTemplates) =>
          SubSeq(storedTemplates', 1, Len(storedTemplates)) = storedTemplates]_vars
C23_Witness ==
  /\ Len(storedTemplates) = MaxTemplates
  /\ storedTemplates[1].usageCount > 0 /\ storedTemplates[1].userId = 2
  /\ storedTemplates[2].previousVersionId = 1
  /\ storedTemplates[3].previousVersionId = 2
  /\ storedTemplates[3].createdAt < today
  /\ storedTemplates[3].content # storedTemplates[1].content

\* C24: after any sequence of addBlock, removeBlock, updateBlock and
\* reorderBlocks on the default structure, the required context and goal
\* blocks of the default structure are still in it; removeBlock on a
\* required block returns the structure it was given, and removeBlock on an
\* unknown id returns the blocks it was given.
C24_RequiredBlocksStay ==
  bLast.op # "" =>
    /\ \E k \in 1..Len(promptStructure.blocks) :
         /\ promptStructure.blocks[k].id = 1
         /\ promptStructure.blocks[k].type = "context"
         /\ promptStructure.blocks[k].required
    /\ \E k \in 1..Len(promptStructure.blocks) :
         /\ promptStructure.blocks[k].id = 2
         /\ promptStructure.blocks[k].type = "goal"
         /\ promptStructure.blocks[k].required
    /\ bLast.op = "remove" /\ findBlock(bLast.given.blocks, bLast.blockId).required
         => promptStructure = bLast.given
    /\ bLast.op = "remove" /\ findBlock(bLast.given.blocks, bLast.blockId) = NoBlock
         => promptStructure.blocks = bLast.given.blocks
C24_Witness ==
  /\ bLast.op = "remove" /\ bLast.blockId = 2
  /\ Len(promptStructure.blocks) = 5
  /\ findBlock(promptStructure.blocks, 2).order # 1
  /\ promptStructure = bLast.given

\* the period a point falls in under groupBy, as numbers
periodOf(timestamp, groupBy) ==
  CASE groupBy = "day" -> timestamp
    [] groupBy = "week" -> weekNum(timestamp)
    [] groupBy = "month" -> monthOf(timestamp)
\* the points of the data the call kept
TrendKept == filterByDateRange(trData, trRange, trNow)

\* C25: generateUsageTrends returns timeLabels in chronological order: of
\* two labels the earlier one in the list is the earlier period, for every
\* data set and every groupBy.
C25_LabelsChronological ==
  trPhase = "done" =>
    \A i, j \in 1..Len(trResult.timeLabels) :
      \A p, q \in 1..Len(TrendKept) :
        /\ i < j
        /\ timeKey(TrendKept[p].timestamp, trGroupBy) = trResult.timeLabels[i]
        /\ timeKey(TrendKept[q].timestamp, trGroupBy) = trResult.timeLabels[j]
        => periodOf(TrendKept[p].timestamp, trGroupBy)
             < periodOf(TrendKept[q].timestamp, trGroupBy)

\* the part of C25 about the datasets: every data list is as long as
\* timeLabels and its k-th number counts the kept points of the role in the
\* period of the k-th label
C25_DataAligned ==
  trPhase = "done" =>
    \A r \in 1..Len(trResult.datasets) :
      /\ Len(trResult.datasets[r].data) = Len(trResult.timeLabels)
      /\ \A k \in 1..Len(trResult.timeLabels) :
           trResult.datasets[r].data[k] =
             Cardinality({p \in 1..Len(TrendKept) :
               /\ TrendKept[p].role = trResult.datasets[r].label
               /\ timeKey(TrendKept[p].timestamp, trGroupBy) = trResult.timeLabels[k]})

\* what GET and DELETE /api/prompts/:id answer for a prompt that is not in
\* the store: 404, no prompt, and the answer made of the request alone
PromptNotFound ==
  [NoResp EXCEPT !.route = resp.route, !.status = 404, !.clerk = resp.clerk,
                 !.uid = resp.uid, !.plan = resp.plan, !.pid = resp.pid,
                 !.seen = resp.seen]

\* C26: GET or DELETE /api/prompts/:id by a signed-up user who does not own
\* the prompt is answered as for a prompt that is not there, 404 with none
\* of the prompt in it, and leaves the store as it was.
C26_PromptsIsolated ==
  /\ resp.route \in {"getPrompt", "delete"}
  /\ resp.uid # 0
  /\ resp.pid \in DOMAIN prompts
  /\ prompts[resp.pid].userId # resp.uid
  => /\ resp = PromptNotFound
     /\ resp.ids = <<>>
     /\ resp.unchanged
C26_Witness ==
  /\ resp.route = "getPrompt" /\ resp.status = 404
  /\ resp.uid # 0
  /\ resp.pid \in DOMAIN prompts
  /\ prompts[resp.pid].userId # resp.uid
  /\ \E i \in DOMAIN prompts : prompts[i].userId = resp.uid
\* the same case for DELETE
C26_DeleteRefused ==
  /\ resp.route = "delete" /\ resp.status = 404
  /\ resp.uid # 0
  /\ resp.pid \in DOMAIN prompts
  /\ prompts[resp.pid].userId # resp.uid

\* C27: after any sequence of POST /api/users/clerk, overlapping requests
\* with the same clerkId included, no two stored users have the same clerkId.
C27_OneUserPerClerkId ==
  \A i, j \in DOMAIN users :
    users[i].clerkId = users[j].clerkId => i = j

\* C28: analyzePromptQuality called once more with the same text returns
\* the same score, issues and strengths as the call before.
C28_SameTextSameResult ==
  [][(/\ qPhase = "analyzed" /\ qPhase' = "analyzed"
      /\ qCalls' = qCalls + 1 /\ qText' = qText)
     => /\ qResult'.score = qResult.score
        /\ qResult'.issues = qResult.issues
        /\ qResult'.strengths = qResult.strengths]_vars

\* the part of C28 about one result: a goal the score credits is listed as
\* a strength and is found by identifyIssues as well
C28_SignalsAgree ==
  [][qCalls' = qCalls + 1
     => (tests(qText', "goal", qLastIndex.goals).score
           => qResult'.strengths.goals /\ qResult'.issues.goals)]_vars

====
